---- MODULE Spec2Model ----
(***************************************************************************)
(* A model of the cache simulation: the Cache (cache.py), the single-server *)
(* ExternalSource (external_source.py), the fixed and adaptive TTL          *)
(* strategies (strategies/), the Client arrival generator (client.py) and   *)
(* the prefetch loop of the hybrid strategy, run by a SimPy environment.    *)
(*                                                                          *)
(* The SimPy environment is modelled by its event queue: a sequence of      *)
(* scheduled events ordered by (time, priority, insertion).  One action of  *)
(* the model is one step of the environment: it pops the first event and    *)
(* runs the process(es) waiting on it up to their next yield.               *)
(*                                                                          *)
(* Time is counted in units of 1e-3 simulated time units (the cache's read  *)
(* delay, cache.py:53), so the read delay is 1 and one simulated second is  *)
(* 1000.  Random draws (service time, inter-arrival time, update interval,  *)
(* key choice, prefetch decision) are nondeterministic choices from small   *)
(* sets.                                                                    *)
(***************************************************************************)
EXTENDS Integers, Sequences, FiniteSets, TLC

VARIABLES
    now,            \* env.now
    queue,          \* the environment's event queue
    status,         \* "running" | "finished" (horizon reached) | "crashed"
    version,        \* resource.version, per key
    srcMetrics,     \* whether ExternalSource was given a MetricsCollector
    strat,          \* the strategy object's state
    store,          \* Cache._store
    stale_seen,     \* Cache._stale_seen
    inflight,       \* Cache._inflight: key -> fetch id (0: no handle)
    reqs,           \* every Cache._handle_request process started so far
    fetches,        \* every Cache._do_fetch process (with its source request)
    users,          \* simpy.Resource.users of the source's server
    put_queue,      \* simpy.Resource.put_queue of the source's server
    metrics,        \* the MetricsCollector's counters
    n_client,       \* Client._counter
    n_prefetch,     \* prefetch requests issued so far
    a_par,          \* AdaptiveTTLStrategy's constructor parameters
    a_now,          \* env.now of the strategy harness
    a_last,         \* the inputs of the last _recalculate_ttl call
    ctor_calls,     \* constructor calls made so far: arguments and outcome
    hyb,            \* HybridPredictiveStrategy's own state
    thin            \* the candidates of the last thinning loop

harnessVars == <<a_par, a_now, a_last, ctor_calls, hyb, thin>>

vars == <<now, queue, status, version, srcMetrics, strat, store, stale_seen,
          inflight, reqs, fetches, users, put_queue, metrics, n_client,
          n_prefetch, harnessVars>>

simVars == <<now, queue, status, version, srcMetrics, store, stale_seen,
             inflight, reqs, fetches, users, put_queue, metrics, n_client,
             n_prefetch>>

-----------------------------------------------------------------------------
(* Bounds of the model *)

MaxRequests == 3
MaxPrefetch == 1
MaxVersion == 1
MaxBursts == 2
MaxUpdates == 2
MaxRecalcs == 2
MaxCalls == 3
MaxCtorCalls == 3
MaxCandidates == 2

(* Program constants *)

HitDelay == 1
StartTime == 0
\* 1e-9 time units, the window that replaces an empty one, is 1 / EpsInv
EpsInv == 1000000

(* Inputs: the configuration values and the values the random draws take *)

Keys == {1, 2}
BoundKey == 1
SimTime == 16000
FixedTtls == {5000, 10000}
Gaps == {0, 5000, 10000}
ServiceTimes == {0, 7000}
UpdateTaus == {6000, 20000}
PrefetchInterval == 7000

-----------------------------------------------------------------------------
(* Exact numbers num / (den * scale), den > 0, scale > 0: the TTL values.   *)

Num(n) == [num |-> n, den |-> 1, scale |-> 1]

CeilDiv(a, b) == -((-a) \div b)

\* r <= c and r >= c for an integer c
NumLeInt(r, c) == CeilDiv(CeilDiv(r.num, r.den), r.scale) <= c
NumGeInt(r, c) == ((r.num \div r.den) \div r.scale) >= c
NumLtInt(r, c) == ~NumGeInt(r, c)
NumGtInt(r, c) == ~NumLeInt(r, c)

-----------------------------------------------------------------------------
(* The event queue *)

Ev(t, prio, kind, id) == [t |-> t, prio |-> prio, kind |-> kind, id |-> id]

\* simpy.core.URGENT (Initialize events) and NORMAL (everything else)
Urgent(t, kind, id) == Ev(t, 0, kind, id)
Normal(t, kind, id) == Ev(t, 1, kind, id)

\* Environment.schedule: heappush with key (time, priority, eid)
Schedule(q, e) ==
    LET n == Cardinality({i \in 1..Len(q) :
                 q[i].t < e.t \/ (q[i].t = e.t /\ q[i].prio <= e.prio)})
    IN  SubSeq(q, 1, n) \o <<e>> \o SubSeq(q, n + 1, Len(q))

RECURSIVE ScheduleAll(_, _)
ScheduleAll(q, es) ==
    IF es = <<>> THEN q ELSE ScheduleAll(Schedule(q, Head(es)), Tail(es))

\* Environment.step pops the first event; run(until) stops before SimTime
Ready(kind) ==
    /\ status = "running"
    /\ queue # <<>>
    /\ Head(queue).t < SimTime
    /\ Head(queue).kind = kind

Cur == Head(queue)

-----------------------------------------------------------------------------
(* Strategies: FixedTTLStrategy and AdaptiveTTLStrategy *)

FixedAcceptsPositive(ttl) == ttl > 0

\* FixedTTLStrategy.__init__: if ttl < 0: raise ValueError
FixedAccepts(ttl) == ~(ttl < 0)

FixedTTLStrategy(ttl) ==
    [kind |-> "fixed", ttl |-> Num(ttl),
     n_requests |-> 0, n_misses |-> 0, t_window_start |-> 0]

\* AdaptiveTTLStrategy._reset_window
ResetWindow(s, t) ==
    [s EXCEPT !.t_window_start = t, !.n_requests = 0, !.n_misses = 0]

\* AdaptiveTTLStrategy.__init__ (theta > 0 is the only check it makes)
AdaptiveAccepts(par) == par.theta > 0

AdaptiveTTLStrategy(par, t) ==
    ResetWindow([kind |-> "adaptive", ttl |-> Num(par.initial_ttl),
                 n_requests |-> 0, n_misses |-> 0, t_window_start |-> 0], t)

IsValidStrict(s, entry, t) == NumGtInt(s.ttl, t - entry.timestamp)

\* is_valid of both strategies: age <= ttl
IsValid(s, entry, t) == NumGeInt(s.ttl, t - entry.timestamp)

\* on_access, n calls in a row: a no-op for FixedTTL, n_requests += 1 per
\* call for AdaptiveTTL
OnAccessTimes(s, n) ==
    IF s.kind = "fixed" THEN s ELSE [s EXCEPT !.n_requests = @ + n]

OnAccess(s) == OnAccessTimes(s, 1)

OnUpdateMissesOnly(s) ==
    IF s.kind = "fixed" THEN s ELSE [s EXCEPT !.n_misses = @ + 1]

\* on_update: a no-op for FixedTTL; both counters += 1 for AdaptiveTTL
OnUpdate(s) ==
    IF s.kind = "fixed" THEN s
    ELSE [s EXCEPT !.n_requests = @ + 1, !.n_misses = @ + 1]

\* window = now - t_window_start or 1e-9, as window.num / window.scale
Window(s, t) ==
    IF t - s.t_window_start = 0
    THEN [num |-> 1, scale |-> EpsInv]
    ELSE [num |-> t - s.t_window_start, scale |-> 1]

RawTtlByRequests(s, par, t) ==
    IF s.n_misses > 0
    THEN [num |-> par.theta * Window(s, t).num, den |-> s.n_requests,
          scale |-> Window(s, t).scale]
    ELSE Num(par.max_ttl)

\* ttl_new before clamping: theta / lam_upd if lam_upd > 0 else max_ttl,
\* where lam_upd = n_misses / window
RawTtl(s, par, t) ==
    IF s.n_misses > 0
    THEN [num |-> par.theta * Window(s, t).num, den |-> s.n_misses,
          scale |-> Window(s, t).scale]
    ELSE Num(par.max_ttl)

\* max(min_ttl, min(max_ttl, x)) with Python's min and max
Clamp(par, x) ==
    LET y == IF NumLtInt(x, par.max_ttl) THEN x ELSE Num(par.max_ttl)
    IN  IF NumGtInt(y, par.min_ttl) THEN y ELSE Num(par.min_ttl)

\* AdaptiveTTLStrategy._recalculate_ttl
RecalculateTtl(s, par, t) ==
    ResetWindow([s EXCEPT !.ttl = Clamp(par, RawTtl(s, par, t))], t)

-----------------------------------------------------------------------------
(* Cache: entries, requests, fetches *)

\* "no entry" (_store.get(key) is None); its version stands for None
NoEntry == [value |-> <<>>, version |-> -1, timestamp |-> -1]

CacheEntryOldVersion(value, ver, t) ==
    [value |-> value, version |-> ver - 1, timestamp |-> t]

CacheEntryAtRequest(value, ver, t) ==
    [value |-> value, version |-> ver,
     timestamp |-> fetches[Cur.id].created_at]

\* CacheEntry(value, version, timestamp)
CacheEntry(value, ver, t) == [value |-> value, version |-> ver, timestamp |-> t]

\* ExternalSource._request_proc: value = f"data_for_{resource.name}"
ValueOf(k) == <<"data_for", k>>

\* A Cache._handle_request process.  start, entry, call_type and the awaited
\* fetch are its local variables; events, accesses, call, result and finish
\* record what it emitted (metrics.events, strategy.on_access calls, its
\* metrics.cache_calls record) and returned; true_version and seen_inflight
\* record key.version and _inflight.get(key) at the instant it was classified.
NewRequest(k, pf) ==
    [key |-> k, prefetch |-> pf, pc |-> "init", start |-> -1,
     entry |-> NoEntry, true_version |-> -1, seen_inflight |-> 0,
     events |-> <<>>, accesses |-> 0, call_type |-> "none", fetch |-> 0,
     created |-> FALSE, call |-> "none", call_version |-> -1,
     result |-> <<>>, finish |-> -1]

\* A Cache._do_fetch process together with the ExternalSource._request_proc
\* it calls.  waiters are the callbacks of the process event in subscription
\* order; pre_version, stored and counted record the store's version before
\* the write, the entry written and the counter incremented.
NewFetch(k, old_ver, t) ==
    [key |-> k, old_version |-> old_ver, pc |-> "init", created_at |-> t,
     waiters |-> <<>>, arrival |-> -1, arrival_version |-> -1,
     granted_at |-> -1, served_at |-> -1,
     result |-> <<>>, pre_version |-> -1, stored |-> NoEntry,
     counted |-> "none", finish |-> -1, source_calls |-> 0]

HasInflightNever(k) == FALSE

\* _execute_fetch: key in self._inflight
HasInflight(k) == inflight[k] # 0

OldVersionNone(entry) == NoEntry.version

\* _execute_fetch: old_ver = entry.version if entry else None
OldVersion(entry) == entry.version

HitClassAgainstStore(entry, k) ==
    IF entry.version = store[k].version THEN "hit_correct" ELSE "hit_incorrect"

\* _serve_hit: hit_correct iff entry.version == key.version
HitClass(entry, k) ==
    IF entry.version = version[k] THEN "hit_correct" ELSE "hit_incorrect"

StaleClassAlwaysInitial(k) == "stale_initial"

\* _mark_stale: the event it records
StaleClass(k) ==
    IF k \notin stale_seen THEN "stale_initial" ELSE "stale_repeat"

\* _handle_request: the hit test of a non-prefetch request
ServedAsHit(pf, entry, t) == ~pf /\ entry # NoEntry /\ IsValid(strat, entry, t)

RequestEventsStaleOnly(pf, entry, k) ==
    IF pf THEN <<"prefetch_attempt">>
    ELSE IF entry # NoEntry THEN <<StaleClass(k)>> ELSE <<"miss">>

\* _handle_request: the events recorded before the fetch
RequestEvents(pf, entry, k) ==
    IF pf THEN <<"prefetch_attempt">>
    ELSE (IF entry # NoEntry THEN <<StaleClass(k)>> ELSE <<>>) \o <<"miss">>

\* _do_fetch: which counter a completed fetch increments
FetchCounter(old_ver, ver) ==
    IF old_ver = NoEntry.version \/ ver # old_ver THEN "update" ELSE "redundant"

BumpTwice(m, field) == [m EXCEPT ![field] = @ + 2]

\* MetricsCollector.record_*: self.<counter> += 1
Bump(m, field) == [m EXCEPT ![field] = @ + 1]

\* Cache._handle_request up to its first yield (lines 69-91), with
\* _serve_hit up to the read delay, _mark_stale, and _execute_fetch up to
\* "yield fetch_evt"
HandleRequest ==
    /\ Ready("req_init")
    /\ LET r == Cur.id
           t == Cur.t
           q == Tail(queue)
           k == reqs[r].key
           pf == reqs[r].prefetch
           entry == store[k]
           hit == ServedAsHit(pf, entry, t)
           stale == ~pf /\ ~hit /\ entry # NoEntry
           join == HasInflight(k)
           f == IF join THEN inflight[k] ELSE Len(fetches) + 1
           cls == IF hit THEN HitClass(entry, k) ELSE "none"
           base == [reqs[r] EXCEPT !.start = t, !.entry = entry,
                       !.true_version = version[k],
                       !.seen_inflight = inflight[k]]
       IN  /\ now' = t
           /\ reqs' = [reqs EXCEPT ![r] =
                 IF hit
                 THEN [base EXCEPT !.pc = "hit_wait", !.events = <<cls>>,
                          !.accesses = @ + 1, !.call_type = cls]
                 ELSE [base EXCEPT !.pc = "fetch_wait",
                          !.events = RequestEvents(pf, entry, k),
                          !.fetch = f, !.created = ~join]]
           /\ strat' = IF hit THEN OnAccess(strat) ELSE strat
           /\ metrics' =
                 IF hit THEN Bump(metrics, IF cls = "hit_correct"
                                  THEN "correct_hits" ELSE "incorrect_hits")
                 ELSE IF stale THEN Bump(metrics, StaleClass(k))
                 ELSE metrics
           /\ stale_seen' = IF stale THEN stale_seen \cup {k} ELSE stale_seen
           /\ fetches' =
                 IF hit THEN fetches
                 ELSE IF join
                 THEN [fetches EXCEPT ![f].waiters = Append(@, r)]
                 ELSE Append(fetches,
                        [NewFetch(k, OldVersion(entry), t)
                            EXCEPT !.waiters = <<r>>])
           /\ inflight' = IF hit \/ join THEN inflight
                          ELSE [inflight EXCEPT ![k] = f]
           /\ queue' =
                 IF hit THEN Schedule(q, Normal(t + HitDelay, "hit_done", r))
                 ELSE IF join THEN q
                 ELSE Schedule(q, Urgent(t, "fetch_init", f))
    /\ UNCHANGED <<status, version, srcMetrics, store, users, put_queue,
                   n_client, n_prefetch, harnessVars>>

HitResultFromStore(entry, k) == <<store[k].value, store[k].version>>

\* _serve_hit: return entry.value, entry.version
HitResult(entry, k) == <<entry.value, entry.version>>

\* _serve_hit after the read delay (lines 126-128)
HitDone ==
    /\ Ready("hit_done")
    /\ LET r == Cur.id
           t == Cur.t
       IN  /\ now' = t
           /\ queue' = Tail(queue)
           /\ reqs' = [reqs EXCEPT ![r] =
                 [@ EXCEPT !.pc = "done", !.finish = t,
                    !.call = reqs[r].call_type,
                    !.call_version = reqs[r].entry.version,
                    !.result = HitResult(reqs[r].entry, reqs[r].key)]]
    /\ UNCHANGED <<status, version, srcMetrics, strat, store, stale_seen,
                   inflight, fetches, users, put_queue, metrics, n_client,
                   n_prefetch, harnessVars>>

-----------------------------------------------------------------------------
(* ExternalSource: the single server and the fetch that calls it *)

GrantedAlways(us, pq) == pq # <<>>

EnqueueFront(pq, f) == <<f>> \o pq

\* self.server.request(): the request joins the end of the put queue
Enqueue(pq, f) == Append(pq, f)

\* simpy Resource._trigger_put / _do_put with capacity 1: the first request
\* of the put queue gets the server if it is free; its event is scheduled
Granted(us, pq) == us = <<>> /\ pq # <<>>
UsersAfterPut(us, pq) == IF Granted(us, pq) THEN <<Head(pq)>> ELSE us
QueueAfterPut(us, pq) == IF Granted(us, pq) THEN Tail(pq) ELSE pq
GrantEvents(us, pq, t) ==
    IF Granted(us, pq) THEN <<Normal(t, "grant", Head(pq))>> ELSE <<>>

SourceResultAhead(k) == <<ValueOf(k), version[k] + 1>>

SourceResultAtAdmission(k) ==
    <<ValueOf(k), fetches[Head(users)].arrival_version>>

\* ExternalSource._request_proc: the pair it returns
SourceResult(k) == <<ValueOf(k), version[k]>>

\* _do_fetch starts: _call_source calls self._source_fn(key), that is
\* ExternalSource.request, which starts a _request_proc process
FetchInit ==
    /\ Ready("fetch_init")
    /\ LET f == Cur.id
       IN  /\ now' = Cur.t
           /\ fetches' = [fetches EXCEPT ![f].pc = "src_init",
                                         ![f].source_calls = @ + 1]
           /\ queue' = Schedule(Tail(queue), Urgent(Cur.t, "src_init", f))
    /\ UNCHANGED <<status, version, srcMetrics, strat, store, stale_seen,
                   inflight, reqs, users, put_queue, metrics, n_client,
                   n_prefetch, harnessVars>>

\* _request_proc up to "yield req": self.server.request()
SourceRequest ==
    /\ Ready("src_init")
    /\ LET f == Cur.id
           pq == Enqueue(put_queue, f)
       IN  /\ now' = Cur.t
           /\ fetches' = [fetches EXCEPT ![f].pc = "queued",
                              ![f].arrival = Cur.t,
                              ![f].arrival_version = version[fetches[f].key]]
           /\ users' = UsersAfterPut(users, pq)
           /\ put_queue' = QueueAfterPut(users, pq)
           /\ queue' = ScheduleAll(Tail(queue), GrantEvents(users, pq, Cur.t))
    /\ UNCHANGED <<status, version, srcMetrics, strat, store, stale_seen,
                   inflight, reqs, metrics, n_client, n_prefetch, harnessVars>>

\* _request_proc resumes with the server: service_time = uniform(min, max)
SourceGranted ==
    /\ Ready("grant")
    /\ \E service_time \in ServiceTimes :
         LET f == Cur.id
         IN  /\ now' = Cur.t
             /\ fetches' = [fetches EXCEPT ![f].pc = "serving",
                                           ![f].granted_at = Cur.t]
             /\ queue' = Schedule(Tail(queue),
                            Normal(Cur.t + service_time, "service_done", f))
    /\ UNCHANGED <<status, version, srcMetrics, strat, store, stale_seen,
                   inflight, reqs, users, put_queue, metrics, n_client,
                   n_prefetch, harnessVars>>

\* _request_proc after the service: the with block releases the server
\* (the Release event is scheduled) and the process returns its pair
SourceServed ==
    /\ Ready("service_done")
    /\ LET f == Cur.id
       IN  /\ now' = Cur.t
           /\ users' = SelectSeq(users, LAMBDA u : u # f)
           /\ fetches' = [fetches EXCEPT ![f].pc = "served",
                              ![f].served_at = Cur.t,
                              ![f].result = SourceResult(fetches[f].key)]
           /\ queue' = ScheduleAll(Tail(queue),
                          <<Normal(Cur.t, "release", f),
                            Normal(Cur.t, "src_end", f)>>)
    /\ UNCHANGED <<status, version, srcMetrics, strat, store, stale_seen,
                   inflight, reqs, put_queue, metrics, n_client, n_prefetch,
                   harnessVars>>

\* the Release event's callback: Resource._trigger_put
SourceRelease ==
    /\ Ready("release")
    /\ now' = Cur.t
    /\ users' = UsersAfterPut(users, put_queue)
    /\ put_queue' = QueueAfterPut(users, put_queue)
    /\ queue' = ScheduleAll(Tail(queue), GrantEvents(users, put_queue, Cur.t))
    /\ UNCHANGED <<status, version, srcMetrics, strat, store, stale_seen,
                   inflight, reqs, fetches, metrics, n_client, n_prefetch,
                   harnessVars>>

StaleDiscardNone(ss, k) == ss

StaleDiscardAll(ss, k) == {}

\* _do_fetch: self._stale_seen.discard(key)
StaleDiscard(ss, k) == ss \ {k}

StorePutAll(st, k, entry) == [j \in DOMAIN st |-> entry]

\* _do_fetch: self._store[key] = CacheEntry(value, version, now)
StorePut(st, k, entry) == [st EXCEPT ![k] = entry]

\* _do_fetch after the source answered (lines 195-209)
DoFetch ==
    /\ Ready("src_end")
    /\ LET f == Cur.id
           k == fetches[f].key
           value == fetches[f].result[1]
           ver == fetches[f].result[2]
           counter == FetchCounter(fetches[f].old_version, ver)
           entry == CacheEntry(value, ver, Cur.t)
       IN  /\ now' = Cur.t
           /\ metrics' = Bump(metrics, IF counter = "update"
                                 THEN "cache_updates" ELSE "redundant_misses")
           /\ store' = StorePut(store, k, entry)
           /\ stale_seen' = StaleDiscard(stale_seen, k)
           /\ strat' = OnUpdate(strat)
           /\ fetches' = [fetches EXCEPT ![f].pc = "done",
                              ![f].pre_version = store[k].version,
                              ![f].stored = entry,
                              ![f].counted = counter,
                              ![f].finish = Cur.t]
           /\ queue' = Schedule(Tail(queue), Normal(Cur.t, "fetch_end", f))
    /\ UNCHANGED <<status, version, srcMetrics, inflight, reqs, users,
                   put_queue, n_client, n_prefetch, harnessVars>>

\* _execute_fetch after "yield fetch_evt" (lines 169-180), run by every
\* waiter in subscription order when the fetch's process event is processed
IsFetchEvtNever(k, f) == FALSE

IsFetchEvt(k, f) == inflight[k] = f

FetchEnd ==
    /\ Ready("fetch_end")
    /\ LET f == Cur.id
           k == fetches[f].key
           ws == fetches[f].waiters
           isw(r) == \E i \in 1..Len(ws) : ws[i] = r
       IN  /\ now' = Cur.t
           /\ queue' = Tail(queue)
           /\ inflight' = IF ws # <<>> /\ IsFetchEvt(k, f)
                          THEN [inflight EXCEPT ![k] = 0] ELSE inflight
           /\ metrics' = [metrics EXCEPT !.miss_times = @ + Len(ws)]
           /\ reqs' = [r \in DOMAIN reqs |->
                 IF isw(r)
                 THEN [reqs[r] EXCEPT !.pc = "done", !.finish = Cur.t,
                          !.call = "miss",
                          !.call_version = fetches[f].result[2],
                          !.result = fetches[f].result]
                 ELSE reqs[r]]
           /\ fetches' = [fetches EXCEPT ![f].pc = "processed"]
    /\ UNCHANGED <<status, version, srcMetrics, strat, store, stale_seen,
                   users, put_queue, n_client, n_prefetch, harnessVars>>

-----------------------------------------------------------------------------
(* The generators: client arrivals, prefetches, version updates *)

\* Cache.request(key, is_prefetch=pf): a new _handle_request process
Request(rs, q, k, pf, t) ==
    [reqs |-> Append(rs, NewRequest(k, pf)),
     queue |-> Schedule(q, Urgent(t, "req_init", Len(rs) + 1))]

RECURSIVE RequestTimes(_, _, _, _, _, _)
RequestTimes(n, rs, q, k, pf, t) ==
    IF n = 0 THEN [reqs |-> rs, queue |-> q]
    ELSE LET one == Request(rs, q, k, pf, t)
         IN  RequestTimes(n - 1, one.reqs, one.queue, k, pf, t)

\* Client._generate_clients, one turn of its loop: a request for a random
\* key, then timeout(interarrival).  (The client's own _handle_request
\* process only calls cache_request_fn and waits; it is folded into the
\* request.)  The loop stops issuing after MaxRequests requests.
ClientArrival ==
    /\ Ready("client")
    /\ \E k \in Keys :
       \E interval \in (IF n_client + 1 < MaxRequests THEN Gaps ELSE {0}) :
         LET one == Request(reqs, Tail(queue), k, FALSE, Cur.t)
         IN  /\ now' = Cur.t
             /\ n_client' = n_client + 1
             /\ reqs' = one.reqs
             /\ queue' = IF n_client + 1 < MaxRequests
                         THEN Schedule(one.queue,
                                Normal(Cur.t + interval, "client", 0))
                         ELSE one.queue
    /\ UNCHANGED <<status, version, srcMetrics, strat, store, stale_seen,
                   inflight, fetches, users, put_queue, metrics, n_prefetch,
                   harnessVars>>

\* HybridPredictiveStrategy._prefetch_loop, one turn: after the timeout it
\* issues cache_ref.request(key, is_prefetch=True) once per profile whose
\* random draw falls below p_pred; the number of such profiles is n.
PrefetchTurn ==
    /\ Ready("prefetch")
    /\ \E n \in 0..(MaxPrefetch - n_prefetch) :
         LET all == RequestTimes(n, reqs, Tail(queue), BoundKey, TRUE, Cur.t)
         IN  /\ now' = Cur.t
             /\ n_prefetch' = n_prefetch + n
             /\ reqs' = all.reqs
             /\ queue' = Schedule(all.queue,
                            Normal(Cur.t + PrefetchInterval, "prefetch", 0))
    /\ UNCHANGED <<status, version, srcMetrics, strat, store, stale_seen,
                   inflight, fetches, users, put_queue, metrics, n_client,
                   harnessVars>>

\* ExternalSource._update_generator, one turn: resource.version += 1, then
\* metrics.record_source_update(self.env.now) if a collector was given:
\* the call lacks MetricsCollector.record_source_update's second argument,
\* so it raises TypeError and the process fails.  Otherwise the loop
\* draws the next interval.  Versions stop at MaxVersion.
UpdateVersionByTwo(ver, k) == [ver EXCEPT ![k] = @ + 2]

UpdateVersion(ver, k) == [ver EXCEPT ![k] = @ + 1]

UpdateGenerator ==
    /\ Ready("update")
    /\ LET k == Cur.id
           last == version[k] + 1 >= MaxVersion
       IN  \E tau \in (IF srcMetrics \/ last THEN {0} ELSE UpdateTaus) :
             /\ now' = Cur.t
             /\ version' = UpdateVersion(version, k)
             /\ queue' =
                   IF srcMetrics
                   THEN Schedule(Tail(queue), Normal(Cur.t, "failed", k))
                   ELSE IF last THEN Tail(queue)
                   ELSE Schedule(Tail(queue), Normal(Cur.t + tau, "update", k))
    /\ UNCHANGED <<status, srcMetrics, strat, store, stale_seen, inflight,
                   reqs, fetches, users, put_queue, metrics, n_client,
                   n_prefetch, harnessVars>>

\* Environment.step on the event of a failed process nobody waits for:
\* the exception leaves Environment.run
ProcessFailed ==
    /\ Ready("failed")
    /\ now' = Cur.t
    /\ queue' = Tail(queue)
    /\ status' = "crashed"
    /\ UNCHANGED <<version, srcMetrics, strat, store, stale_seen, inflight,
                   reqs, fetches, users, put_queue, metrics, n_client,
                   n_prefetch, harnessVars>>

\* Simulator.run: env.run(until=sim_time) returns when the next event lies
\* at or after the horizon
RunEnds ==
    /\ status = "running"
    /\ IF queue = <<>> THEN TRUE ELSE Head(queue).t >= SimTime
    /\ status' = "finished"
    /\ now' = SimTime
    /\ UNCHANGED <<queue, version, srcMetrics, strat, store, stale_seen,
                   inflight, reqs, fetches, users, put_queue, metrics,
                   n_client, n_prefetch, harnessVars>>

-----------------------------------------------------------------------------
(* The simulation *)

NoPar == [theta |-> 0, recalc_interval |-> 0, min_ttl |-> 0, max_ttl |-> 0,
          initial_ttl |-> 0]

NoRecalc == [n |-> 0, t |-> 0, window_start |-> 0, n_requests |-> 0,
             n_misses |-> 0, ttl_before |-> Num(0)]

\* no HybridPredictiveStrategy was constructed
NoHybrid == [built |-> FALSE]

\* no thinning loop has run
NoThinning == [n |-> 0, start |-> 0, cands |-> <<>>]

NoMetrics ==
    [correct_hits |-> 0, incorrect_hits |-> 0, miss_times |-> 0,
     stale_initial |-> 0, stale_repeat |-> 0, cache_updates |-> 0,
     redundant_misses |-> 0]

\* The state when Environment.run starts processing timed events: every
\* process has run to its first timeout (the update generators, then the
\* prefetch loop, then the client, in the order they were created).
Init ==
    /\ now = 0
    /\ status = "running"
    /\ version = [k \in Keys |-> 0]
    /\ srcMetrics \in BOOLEAN
    /\ \E ttl \in FixedTtls : strat = FixedTTLStrategy(ttl)
    /\ store = [k \in Keys |-> NoEntry]
    /\ stale_seen = {}
    /\ inflight = [k \in Keys |-> 0]
    /\ reqs = <<>>
    /\ fetches = <<>>
    /\ users = <<>>
    /\ put_queue = <<>>
    /\ metrics = NoMetrics
    /\ n_client = 0
    /\ n_prefetch = 0
    /\ \E tau \in [Keys -> UpdateTaus] :
         queue = ScheduleAll(<<>>,
                   [k \in 1..Cardinality(Keys) |-> Normal(tau[k], "update", k)]
                   \o <<Normal(PrefetchInterval, "prefetch", 0),
                        Normal(StartTime, "client", 0)>>)
    /\ a_par = NoPar
    /\ a_now = 0
    /\ a_last = NoRecalc
    /\ ctor_calls = <<>>
    /\ hyb = NoHybrid
    /\ thin = NoThinning

Next ==
    \/ ClientArrival
    \/ PrefetchTurn
    \/ UpdateGenerator
    \/ HandleRequest
    \/ HitDone
    \/ FetchInit
    \/ SourceRequest
    \/ SourceGranted
    \/ SourceServed
    \/ SourceRelease
    \/ DoFetch
    \/ FetchEnd
    \/ ProcessFailed
    \/ RunEnds

Spec == Init /\ [][Next]_vars

-----------------------------------------------------------------------------
(* The AdaptiveTTL strategy on its own: the calls the Cache makes on it    *)
(* (on_access per hit, on_update per completed fetch) in any order, and     *)
(* its _recalc_loop.  Times are in the same unit as above.                  *)

Thetas == {0, 1, 2}
RecalcIntervals == {0, 100000}
\* <<min_ttl, max_ttl>>: the defaults, a narrow range, a range from 0, and
\* an inverted pair (the constructor compares neither with the other)
TtlBounds == {<<1000, 3600000>>, <<10000, 40000>>, <<0, 40000>>,
              <<60000, 10000>>}
InitialTtls == {60000}
HitBursts == {1, 100}

AdaptivePars ==
    {par \in [theta : Thetas, recalc_interval : RecalcIntervals,
              min_ttl : {b[1] : b \in TtlBounds},
              max_ttl : {b[2] : b \in TtlBounds},
              initial_ttl : InitialTtls] :
        /\ <<par.min_ttl, par.max_ttl>> \in TtlBounds
        /\ AdaptiveAccepts(par)}

Hits(s) == s.n_requests - s.n_misses

InitAdaptive ==
    /\ now = 0
    /\ status = "finished"
    /\ version = [k \in Keys |-> 0]
    /\ srcMetrics = FALSE
    /\ store = [k \in Keys |-> NoEntry]
    /\ stale_seen = {}
    /\ inflight = [k \in Keys |-> 0]
    /\ reqs = <<>>
    /\ fetches = <<>>
    /\ users = <<>>
    /\ put_queue = <<>>
    /\ metrics = NoMetrics
    /\ n_client = 0
    /\ n_prefetch = 0
    /\ queue = <<>>
    /\ a_par \in AdaptivePars
    /\ a_now = 0
    /\ a_last = NoRecalc
    /\ ctor_calls = <<>>
    /\ hyb = NoHybrid
    /\ thin = NoThinning
    /\ strat = AdaptiveTTLStrategy(a_par, 0)

\* Cache._serve_hit calls strategy.on_access: n hits in a row
AdaptiveOnAccess ==
    /\ a_last.n < MaxRecalcs
    /\ \E n \in HitBursts :
         /\ (Hits(strat) \div 100) + (Hits(strat) % 100) < MaxBursts
         /\ strat' = OnAccessTimes(strat, n)
    /\ UNCHANGED <<simVars, a_par, a_now, a_last, ctor_calls, hyb, thin>>

\* Cache._do_fetch calls strategy.on_update
AdaptiveOnUpdate ==
    /\ a_last.n < MaxRecalcs
    /\ strat.n_misses < MaxUpdates
    /\ strat' = OnUpdate(strat)
    /\ UNCHANGED <<simVars, a_par, a_now, a_last, ctor_calls, hyb, thin>>

\* _recalc_loop, one turn: timeout(recalc_interval), _recalculate_ttl(now)
AdaptiveRecalc ==
    /\ a_last.n < MaxRecalcs
    /\ a_now' = a_now + a_par.recalc_interval
    /\ strat' = RecalculateTtl(strat, a_par, a_now')
    /\ a_last' = [n |-> a_last.n + 1, t |-> a_now',
                  window_start |-> strat.t_window_start,
                  n_requests |-> strat.n_requests,
                  n_misses |-> strat.n_misses, ttl_before |-> strat.ttl]
    /\ UNCHANGED <<simVars, a_par, ctor_calls, hyb, thin>>

NextAdaptive ==
    \/ AdaptiveOnAccess
    \/ AdaptiveOnUpdate
    \/ AdaptiveRecalc

SpecAdaptive == InitAdaptive /\ [][NextAdaptive]_vars


-----------------------------------------------------------------------------
(* ExternalSource on its own: callers of ExternalSource.request, its single *)
(* server and the update generators, without a cache in front.  The calls   *)
(* are kept in fetches (key, arrival, granted_at, served_at, result).       *)

\* a caller: source.request(resource) at the current instant, the next call
\* after some interval
SourceClient ==
    /\ Ready("src_client")
    /\ \E k \in Keys : \E interval \in Gaps :
         LET f == Len(fetches) + 1
             q == Schedule(Tail(queue), Urgent(Cur.t, "src_init", f))
         IN  /\ now' = Cur.t
             /\ fetches' = Append(fetches,
                              [NewFetch(k, NoEntry.version, Cur.t)
                                  EXCEPT !.pc = "src_init", !.source_calls = 1])
             /\ n_client' = n_client + 1
             /\ queue' = IF n_client + 1 < MaxCalls
                         THEN Schedule(q, Normal(Cur.t + interval, "src_client", 0))
                         ELSE q
    /\ UNCHANGED <<status, version, srcMetrics, strat, store, stale_seen,
                   inflight, reqs, users, put_queue, metrics, n_prefetch,
                   harnessVars>>

\* the process event of _request_proc: the caller receives (value, version)
SourceReturn ==
    /\ Ready("src_end")
    /\ now' = Cur.t
    /\ fetches' = [fetches EXCEPT ![Cur.id].pc = "done",
                                  ![Cur.id].finish = Cur.t]
    /\ queue' = Tail(queue)
    /\ UNCHANGED <<status, version, srcMetrics, strat, store, stale_seen,
                   inflight, reqs, users, put_queue, metrics, n_client,
                   n_prefetch, harnessVars>>

InitSource ==
    /\ now = 0
    /\ status = "running"
    /\ version = [k \in Keys |-> 0]
    /\ srcMetrics = FALSE
    /\ \E ttl \in FixedTtls : strat = FixedTTLStrategy(ttl)
    /\ store = [k \in Keys |-> NoEntry]
    /\ stale_seen = {}
    /\ inflight = [k \in Keys |-> 0]
    /\ reqs = <<>>
    /\ fetches = <<>>
    /\ users = <<>>
    /\ put_queue = <<>>
    /\ metrics = NoMetrics
    /\ n_client = 0
    /\ n_prefetch = 0
    /\ \E tau \in [Keys -> UpdateTaus] :
         queue = ScheduleAll(<<>>,
                   [k \in 1..Cardinality(Keys) |-> Normal(tau[k], "update", k)]
                   \o <<Normal(StartTime, "src_client", 0)>>)
    /\ a_par = NoPar
    /\ a_now = 0
    /\ a_last = NoRecalc
    /\ ctor_calls = <<>>
    /\ hyb = NoHybrid
    /\ thin = NoThinning

NextSource ==
    \/ SourceClient
    \/ SourceRequest
    \/ SourceGranted
    \/ SourceServed
    \/ SourceRelease
    \/ SourceReturn
    \/ UpdateGenerator
    \/ RunEnds

SpecSource == InitSource /\ [][NextSource]_vars

-----------------------------------------------------------------------------
(* Construction: a caller builds a strategy and then a CyclicClient on a    *)
(* fresh environment, as Simulator.__init__ does, trying further arguments  *)
(* when a constructor raises; then the environment runs the processes the   *)
(* constructors started.  Amplitudes are counted in tenths, and the         *)
(* client's cache_request_fn only records the request.                      *)

AmplitudeOne == 10
FixedTtlArgs == {-1, 0, 10000}
ThetaArgs == {-1, 0, 1}
LambdaArgs == {-1, 0, 2}
AmplitudeArgs == {-1, 0, 10, 11}
PeriodArgs == {-1, 0, 10000}
\* <<initial_ttl, min_ttl, max_ttl>>: the defaults, and each made negative
TtlArgs == {<<60000, 1000, 3600000>>, <<-1, 1000, 3600000>>,
            <<60000, -1, 3600000>>, <<60000, 1000, -1>>}
AdaptiveArgs(theta, ttls) ==
    [theta |-> theta, recalc_interval |-> 5000, min_ttl |-> ttls[2],
     max_ttl |-> ttls[3], initial_ttl |-> ttls[1]]

NoStrategy ==
    [kind |-> "none", ttl |-> Num(0),
     n_requests |-> 0, n_misses |-> 0, t_window_start |-> 0]

CyclicAcceptsAnyPeriod(lambda_base, amplitude, period) ==
    /\ 0 <= amplitude /\ amplitude <= AmplitudeOne
    /\ ~(lambda_base <= 0)

\* CyclicClient.__init__: the two checks that raise ValueError
CyclicAccepts(lambda_base, amplitude, period) ==
    /\ 0 <= amplitude /\ amplitude <= AmplitudeOne
    /\ ~(lambda_base <= 0 \/ period <= 0)

CtorCall(ctor, args, ok) == [ctor |-> ctor, args |-> args, raised |-> ~ok]

\* the constructor calls the caller has spent: it gives up after MaxCtorCalls
\* (ExternalSource, which is built once and refuses nothing, is not counted)
Attempts ==
    Cardinality({c \in 1..Len(ctor_calls) :
                    ctor_calls[c].ctor # "ExternalSource"})

\* some call of ctor was accepted
Built(ctor) ==
    \E c \in 1..Len(ctor_calls) :
        ctor_calls[c].ctor = ctor /\ ~ctor_calls[c].raised

\* the arguments of the last accepted call of ctor
ArgsOf(ctor) ==
    LET S == {c \in 1..Len(ctor_calls) :
                 ctor_calls[c].ctor = ctor /\ ~ctor_calls[c].raised}
    IN  ctor_calls[CHOOSE c \in S : \A d \in S : d <= c].args

\* FixedTTLStrategy(ttl)
ConstructFixedTTL ==
    /\ status = "constructing"
    /\ Attempts < MaxCtorCalls
    /\ \E ttl \in FixedTtlArgs :
         LET ok == FixedAccepts(ttl)
         IN  /\ ctor_calls' = Append(ctor_calls,
                                CtorCall("FixedTTLStrategy", <<ttl>>, ok))
             /\ strat' = IF ok THEN FixedTTLStrategy(ttl) ELSE strat
             /\ status' = IF ok THEN "strategy_built" ELSE status
    /\ UNCHANGED <<now, queue, version, srcMetrics, store, stale_seen,
                   inflight, reqs, fetches, users, put_queue, metrics,
                   n_client, n_prefetch, a_par, a_now, a_last, hyb, thin>>

\* AdaptiveTTLStrategy(env, metrics, ...): the check of theta, the fields,
\* _reset_window, env.process(self._recalc_loop())
ConstructAdaptiveTTL ==
    /\ status = "constructing"
    /\ Attempts < MaxCtorCalls
    /\ \E theta \in ThetaArgs : \E ttls \in TtlArgs :
         LET par == AdaptiveArgs(theta, ttls)
             ok == AdaptiveAccepts(par)
         IN  /\ ctor_calls' = Append(ctor_calls,
                                CtorCall("AdaptiveTTLStrategy",
                                         <<theta>> \o ttls, ok))
             /\ strat' = IF ok THEN AdaptiveTTLStrategy(par, now) ELSE strat
             /\ a_par' = IF ok THEN par ELSE a_par
             /\ queue' = IF ok
                         THEN Schedule(queue, Urgent(now, "recalc_init", 0))
                         ELSE queue
             /\ status' = IF ok THEN "strategy_built" ELSE status
    /\ UNCHANGED <<now, version, srcMetrics, store, stale_seen, inflight,
                   reqs, fetches, users, put_queue, metrics, n_client,
                   n_prefetch, a_now, a_last, hyb, thin>>

\* CyclicClient(env, cache_request_fn, lambda_base=..., amplitude=...,
\* period=...): the checks, the fields, env.process(self._generate_clients())
ConstructCyclicClient ==
    /\ status = "strategy_built"
    /\ Attempts < MaxCtorCalls
    /\ \E lambda_base \in LambdaArgs : \E amplitude \in AmplitudeArgs :
       \E period \in PeriodArgs :
         LET ok == CyclicAccepts(lambda_base, amplitude, period)
         IN  /\ ctor_calls' = Append(ctor_calls,
                                CtorCall("CyclicClient",
                                         <<lambda_base, amplitude, period>>, ok))
             /\ queue' = IF ok
                         THEN Schedule(queue, Urgent(now, "cyclic_init", 0))
                         ELSE queue
             /\ status' = IF ok THEN "running" ELSE status
    /\ UNCHANGED <<now, version, srcMetrics, strat, store, stale_seen,
                   inflight, reqs, fetches, users, put_queue, metrics,
                   n_client, n_prefetch, a_par, a_now, a_last, hyb, thin>>

\* _recalc_loop up to its first timeout(recalc_interval)
RecalcStart ==
    /\ Ready("recalc_init")
    /\ now' = Cur.t
    /\ queue' = Schedule(Tail(queue),
                   Normal(Cur.t + a_par.recalc_interval, "recalc", 0))
    /\ UNCHANGED <<status, version, srcMetrics, strat, store, stale_seen,
                   inflight, reqs, fetches, users, put_queue, metrics,
                   n_client, n_prefetch, harnessVars>>

\* _recalc_loop, one turn: _recalculate_ttl(env.now), timeout(recalc_interval)
RecalcTurn ==
    /\ Ready("recalc")
    /\ now' = Cur.t
    /\ strat' = RecalculateTtl(strat, a_par, Cur.t)
    /\ a_last' = [n |-> a_last.n + 1, t |-> Cur.t,
                  window_start |-> strat.t_window_start,
                  n_requests |-> strat.n_requests,
                  n_misses |-> strat.n_misses, ttl_before |-> strat.ttl]
    /\ queue' = IF a_last.n + 1 < MaxRecalcs
                THEN Schedule(Tail(queue),
                        Normal(Cur.t + a_par.recalc_interval, "recalc", 0))
                ELSE Tail(queue)
    /\ UNCHANGED <<status, version, srcMetrics, store, stale_seen, inflight,
                   reqs, fetches, users, put_queue, metrics, n_client,
                   n_prefetch, a_par, a_now, ctor_calls, hyb, thin>>


\* the draws of random.expovariate(lambda_max), and those of random.random()
\* in quarters
Taus == {0, 2500}
Uniforms == {0, 1, 3}
UniformOne == 4

\* the fields of the CyclicClient that was built
CyclicPar ==
    LET args == ArgsOf("CyclicClient")
    IN  [lambda_base |-> args[1], amplitude |-> args[2], period |-> args[3]]

\* math.sin(2 * math.pi * t / period) at the quarters of the period
SinQuarter(t, period) ==
    LET q == ((4 * t) \div period) % 4
    IN  CASE q = 0 -> 0 [] q = 1 -> 1 [] q = 2 -> 0 [] q = 3 -> -1

\* _instant_rate(t) and _lambda_max, in tenths
InstantRate(par, t) ==
    par.lambda_base * (AmplitudeOne + par.amplitude * SinQuarter(t, par.period))
LambdaMax(par) == par.lambda_base * (AmplitudeOne + par.amplitude)

\* random.random() <= lam_t / self._lambda_max
ThinningAccepts(par, t, u) ==
    u * LambdaMax(par) <= UniformOne * InstantRate(par, t)

\* t_cur after the i-th candidate: t_cur = env.now, then t_cur += tau
RECURSIVE CandidateTime(_, _, _)
CandidateTime(t0, draws, i) ==
    IF i = 0 THEN t0 ELSE CandidateTime(t0, draws, i - 1) + draws[i][1]

\* the inner `while True` of _generate_clients entered at env.now = t0: the
\* candidates it made, the last one accepted, all the others rejected
ThinningLoop(par, t0) ==
    UNION {
      { [start |-> t0,
         cands |-> [i \in 1..n |->
                      [t |-> CandidateTime(t0, draws, i),
                       accepted |-> (i = n)]]] :
        draws \in
          {d \in [1..n -> Taus \X Uniforms] :
              \A i \in 1..n :
                 ThinningAccepts(par, CandidateTime(t0, d, i), d[i][2])
                    <=> (i = n)} } :
      n \in 1..MaxCandidates }

AcceptedTime(run) == run.cands[Len(run.cands)].t

ThinningDelayLastTau(run) ==
    AcceptedTime(run)
       - (IF Len(run.cands) = 1 THEN run.start
          ELSE run.cands[Len(run.cands) - 1].t)

\* the argument of the timeout after the loop: t_cur - self.env.now
ThinningDelay(run) == AcceptedTime(run) - run.start

\* CyclicClient._generate_clients up to timeout(start_time)
CyclicStart ==
    /\ Ready("cyclic_init")
    /\ now' = Cur.t
    /\ queue' = Schedule(Tail(queue), Normal(Cur.t + StartTime, "cyclic_begin", 0))
    /\ UNCHANGED <<status, version, srcMetrics, strat, store, stale_seen,
                   inflight, reqs, fetches, users, put_queue, metrics,
                   n_client, n_prefetch, harnessVars>>

\* _generate_clients after the start delay: the thinning loop picks the
\* first arrival time, timeout(t_cur - now)
CyclicBegin ==
    /\ Ready("cyclic_begin")
    /\ \E run \in ThinningLoop(CyclicPar, Cur.t) :
         /\ now' = Cur.t
         /\ thin' = [n |-> thin.n + 1, start |-> run.start,
                     cands |-> run.cands]
         /\ queue' = Schedule(Tail(queue),
                        Normal(Cur.t + ThinningDelay(run), "cyclic", 0))
    /\ UNCHANGED <<status, version, srcMetrics, strat, store, stale_seen,
                   inflight, reqs, fetches, users, put_queue, metrics,
                   n_client, n_prefetch, a_par, a_now, a_last, ctor_calls,
                   hyb>>

\* _generate_clients, one turn: the request for a key, then the thinning
\* loop and the timeout to the next arrival
CyclicArrival ==
    /\ Ready("cyclic")
    /\ now' = Cur.t
    /\ n_client' = n_client + 1
    /\ \E k \in Keys : reqs' = Append(reqs, NewRequest(k, FALSE))
    /\ IF n_client + 1 < MaxRequests
       THEN \E run \in ThinningLoop(CyclicPar, Cur.t) :
              /\ thin' = [n |-> thin.n + 1, start |-> run.start,
                          cands |-> run.cands]
              /\ queue' = Schedule(Tail(queue),
                             Normal(Cur.t + ThinningDelay(run), "cyclic", 0))
       ELSE /\ thin' = thin
            /\ queue' = Tail(queue)
    /\ UNCHANGED <<status, version, srcMetrics, strat, store, stale_seen,
                   inflight, fetches, users, put_queue, metrics, n_prefetch,
                   a_par, a_now, a_last, ctor_calls, hyb>>

InitConstruct ==
    /\ now = 0
    /\ status = "constructing"
    /\ version = [k \in Keys |-> 0]
    /\ srcMetrics = FALSE
    /\ strat = NoStrategy
    /\ store = [k \in Keys |-> NoEntry]
    /\ stale_seen = {}
    /\ inflight = [k \in Keys |-> 0]
    /\ reqs = <<>>
    /\ fetches = <<>>
    /\ users = <<>>
    /\ put_queue = <<>>
    /\ metrics = NoMetrics
    /\ n_client = 0
    /\ n_prefetch = 0
    /\ queue = <<>>
    /\ a_par = NoPar
    /\ a_now = 0
    /\ a_last = NoRecalc
    /\ ctor_calls = <<>>
    /\ hyb = NoHybrid
    /\ thin = NoThinning

NextConstruct ==
    \/ ConstructFixedTTL
    \/ ConstructAdaptiveTTL
    \/ ConstructCyclicClient
    \/ RecalcStart
    \/ RecalcTurn
    \/ CyclicStart
    \/ CyclicBegin
    \/ CyclicArrival
    \/ RunEnds

SpecConstruct == InitConstruct /\ [][NextConstruct]_vars

-----------------------------------------------------------------------------
(* Construction with rates: a caller builds a SimpleResource, an            *)
(* ExternalSource over it, an AdaptiveTTLStrategy and a Client, by hand and *)
(* with any arguments, and then runs the environment.  A rate is a tuple:   *)
(* <<>> when arrival_rate is left None, <<r>> otherwise.                    *)

UpdateRateArgs == {-1, 0, 1}
ArrivalRateArgs == {<<>>, <<-1>>, <<0>>, <<2>>}

\* SimpleResource.__init__: if update_rate < 0: raise ValueError
ResourceAccepts(update_rate) == ~(update_rate < 0)

\* Client.__init__ checks none of its arguments
ClientAccepts(rate) == TRUE

\* random.expovariate(lambd) divides by lambd: ZeroDivisionError for 0, a
\* negative interval for lambd < 0, which env.timeout refuses (ValueError)
ExpovariateFails(lambd) == lambd <= 0

\* SimpleResource(name, update_rate)
ConstructSimpleResource ==
    /\ status = "constructing"
    /\ Attempts < MaxCtorCalls
    /\ \E update_rate \in UpdateRateArgs :
         ctor_calls' = Append(ctor_calls,
                          CtorCall("SimpleResource", <<update_rate>>,
                                   ResourceAccepts(update_rate)))
    /\ UNCHANGED <<now, queue, status, version, srcMetrics, strat, store,
                   stale_seen, inflight, reqs, fetches, users, put_queue,
                   metrics, n_client, n_prefetch, a_par, a_now, a_last,
                   hyb, thin>>

\* ExternalSource(env, min_service, max_service, resources=[r]): no check;
\* env.process(self._update_generator(resource)) for the resource
ConstructExternalSource ==
    /\ status = "constructing"
    /\ Built("SimpleResource")
    /\ ~Built("ExternalSource")
    /\ ctor_calls' = Append(ctor_calls, CtorCall("ExternalSource", <<>>, TRUE))
    /\ queue' = Schedule(queue, Urgent(now, "update_init", BoundKey))
    /\ UNCHANGED <<now, status, version, srcMetrics, strat, store,
                   stale_seen, inflight, reqs, fetches, users, put_queue,
                   metrics, n_client, n_prefetch, a_par, a_now, a_last,
                   hyb, thin>>

\* Client(env, cache_request_fn, arrival_rate=...): the fields,
\* env.process(self._generate_clients())
ConstructClient ==
    /\ status = "strategy_built"
    /\ Attempts < MaxCtorCalls
    /\ \E rate \in ArrivalRateArgs :
         LET ok == ClientAccepts(rate)
         IN  /\ ctor_calls' = Append(ctor_calls, CtorCall("Client", rate, ok))
             /\ queue' = IF ok
                         THEN Schedule(queue, Urgent(now, "hclient_init", 0))
                         ELSE queue
             /\ status' = IF ok THEN "running" ELSE status
    /\ UNCHANGED <<now, version, srcMetrics, strat, store, stale_seen,
                   inflight, reqs, fetches, users, put_queue, metrics,
                   n_client, n_prefetch, a_par, a_now, a_last, hyb, thin>>

\* _update_generator up to its first timeout: tau = expovariate(update_rate)
UpdateStart ==
    /\ Ready("update_init")
    /\ now' = Cur.t
    /\ IF ExpovariateFails(ArgsOf("SimpleResource")[1])
       THEN queue' = Schedule(Tail(queue), Normal(Cur.t, "failed", Cur.id))
       ELSE \E tau \in UpdateTaus :
              queue' = Schedule(Tail(queue),
                          Normal(Cur.t + tau, "update", Cur.id))
    /\ UNCHANGED <<status, version, srcMetrics, strat, store, stale_seen,
                   inflight, reqs, fetches, users, put_queue, metrics,
                   n_client, n_prefetch, harnessVars>>

\* Client._generate_clients up to timeout(start_time)
ClientStart ==
    /\ Ready("hclient_init")
    /\ now' = Cur.t
    /\ queue' = Schedule(Tail(queue), Normal(Cur.t + StartTime, "hclient", 0))
    /\ UNCHANGED <<status, version, srcMetrics, strat, store, stale_seen,
                   inflight, reqs, fetches, users, put_queue, metrics,
                   n_client, n_prefetch, harnessVars>>

\* Client._generate_clients, one turn: the request, then interarrival_fn():
\* _default_interarrival raises ValueError when arrival_rate is None, and
\* expovariate(arrival_rate) otherwise
ClientTurn ==
    /\ Ready("hclient")
    /\ now' = Cur.t
    /\ n_client' = n_client + 1
    /\ \E k \in Keys : reqs' = Append(reqs, NewRequest(k, FALSE))
    /\ LET rate == ArgsOf("Client")
       IN  IF (IF rate = <<>> THEN TRUE ELSE ExpovariateFails(rate[1]))
           THEN queue' = Schedule(Tail(queue), Normal(Cur.t, "failed", 0))
           ELSE \E interval \in Gaps :
                  queue' = IF n_client + 1 < MaxRequests
                           THEN Schedule(Tail(queue),
                                   Normal(Cur.t + interval, "hclient", 0))
                           ELSE Tail(queue)
    /\ UNCHANGED <<status, version, srcMetrics, strat, store, stale_seen,
                   inflight, fetches, users, put_queue, metrics, n_prefetch,
                   harnessVars>>


-----------------------------------------------------------------------------
(* HybridPredictiveStrategy over its base AdaptiveTTLStrategy (strat): the  *)
(* calls a Cache makes on it (is_valid and on_access for a lookup of the    *)
(* stored entry, on_update when a fetch completes), its analysis and        *)
(* prefetch tasks, the base's recalculation task, and the caller's          *)
(* bind_cache.  A prefetch request is recorded in reqs; its fetch completes *)
(* after the service time and reports on_update like every other fetch.     *)

MaxHybridCalls == 4

\* the constructor's arguments: the window holds 6 bins
HybridPar ==
    [history_window |-> 5500, analyze_interval |-> 1500,
     profile_bin |-> 1000, prefetch_interval |-> 1750,
     max_periods |-> 2, k |-> 1]
HybridBasePar ==
    [theta |-> 1, recalc_interval |-> 5000, min_ttl |-> 500,
     max_ttl |-> 4000, initial_ttl |-> 1000]
HybridGaps == {0, 1000, 2000, 3000}
HybridServiceTime == 250

\* HybridPredictiveStrategy.__init__: the fields (no cache_ref, no key)
HybridPredictiveStrategy(par) ==
    [built |-> TRUE, par |-> par, update_history |-> <<>>, profiles |-> {},
     bound |-> FALSE, key |-> 0,
     stepped_unbound |-> FALSE, last_analysis |-> -1, tied |-> FALSE,
     last_call |-> [n |-> 0, op |-> "none", t |-> -1, valid |-> FALSE],
     prefetch |-> [issued |-> -1, done |-> -1]]

\* is_valid: return self.base.is_valid(entry, now)
HybridIsValid(s, entry, t) == IsValid(s, entry, t)

HybridOnAccessDropped(s) == s

\* on_access: return self.base.on_access(entry, now)
HybridOnAccess(s) == OnAccess(s)

\* on_update: self._update_history.append(now) ...
HybridRecord(h, t) == [h EXCEPT !.update_history = Append(@, t)]

\* ... return self.base.on_update(entry, now)
HybridOnUpdate(s) == OnUpdate(s)

\* bind_cache
BindCache ==
    /\ status = "running"
    /\ hyb.built
    /\ \E k \in Keys :
         /\ hyb.key < k
         /\ hyb' = [hyb EXCEPT !.bound = TRUE, !.key = k]
    /\ UNCHANGED <<simVars, strat, a_par, a_now, a_last, ctor_calls, thin>>

\* len(counts): np.arange(window_start, now + bin, bin) has this many
\* edges but one
NumBins(par) == CeilDiv(par.history_window, par.profile_bin)

\* np.histogram: the bin of t, counted from 0; the last bin is closed
BinOf(par, ws, t) ==
    LET i == (t - ws) \div par.profile_bin
    IN  IF i < NumBins(par) THEN i ELSE NumBins(par) - 1

Counts(par, hist, ws) ==
    [i \in 1..NumBins(par) |->
        Cardinality({j \in 1..Len(hist) : BinOf(par, ws, hist[j]) = i - 1})]

RECURSIVE SumSeq(_)
SumSeq(seq) == IF seq = <<>> THEN 0 ELSE Head(seq) + SumSeq(Tail(seq))

\* 2 * cos(2 * pi * m / n), an integer for the lengths 1, 2, 3, 4 and 6
Cos2(n, m) ==
    CASE n = 1 -> 2
      [] n = 2 -> <<2, -2>>[m + 1]
      [] n = 3 -> <<2, -1, -1>>[m + 1]
      [] n = 4 -> <<2, 0, -2, 0>>[m + 1]
      [] n = 6 -> <<2, 1, -1, -2, -1, 1>>[m + 1]

\* 2 * |np.fft.fft(counts)[i]|^2 for the index i, counted from 0
Mag2(counts, i) ==
    LET n == Len(counts)
    IN  SumSeq([x \in 1..(n * n) |->
                  LET j == (x - 1) \div n
                      l == (x - 1) % n
                  IN  counts[j + 1] * counts[l + 1]
                         * Cos2(n, ((j - l) * i + n * n) % n)])

\* 2 * np.abs(np.fft.fft(counts))^2, as a sequence
Mags(counts) == [i \in 1..Len(counts) |-> Mag2(counts, i - 1)] \o <<>>

\* np.fft.fftfreq(n, d)[i] * n * d
FreqOf(n, i) == IF 2 * i < n THEN i ELSE i - n

\* 1 / abs(freqs[i])
PeriodOf(par, n, i) ==
    LET f == FreqOf(n, i)
    IN  (n * par.profile_bin) \div (IF f < 0 THEN -f ELSE f)

\* np.argsort(mag)[-max_periods:]: the indices of the max_periods largest
\* magnitudes (all of them for max_periods = 0); the order among equal
\* magnitudes is the sort's
TopSets(mag, max_periods) ==
    LET n == Len(mag)
        size == IF max_periods = 0 \/ max_periods > n THEN n ELSE max_periods
    IN  {S \in SUBSET (0..(n - 1)) :
            /\ Cardinality(S) = size
            /\ \A i \in S : \A j \in (0..(n - 1)) \ S :
                  mag[j + 1] <= mag[i + 1]}

\* self._profiles[T] = profile for every T of periods
ProfilesAfter(profiles, Ts, ws, counts) ==
    {p \in profiles : p.period \notin Ts}
        \cup {[period |-> T, ws |-> ws, counts |-> counts] : T \in Ts}

\* _analysis_loop, one turn after its timeout
AnalysisTurn ==
    /\ Ready("analysis")
    /\ LET par == hyb.par
           ws == Cur.t - par.history_window
           InWindow(x) == x >= ws
           hist == SelectSeq(hyb.update_history, InWindow)
           counts == Counts(par, hist, ws)
           h == [hyb EXCEPT !.last_analysis = Cur.t,
                            !.stepped_unbound = @ \/ ~hyb.bound]
       IN  /\ now' = Cur.t
           /\ IF Len(hist) < 2
              THEN hyb' = h
              ELSE \E tops \in {TopSets(Mags(counts), par.max_periods)} :
                   \E S \in tops :
                     LET Ts == {PeriodOf(par, Len(counts), i) : i \in S \ {0}}
                     IN  hyb' = [h EXCEPT
                            !.profiles = ProfilesAfter(@, Ts, ws, counts),
                            !.tied = @ \/ Cardinality(
                               {{PeriodOf(par, Len(counts), i) : i \in T \ {0}}
                                   : T \in tops}) > 1]
           /\ queue' = Schedule(Tail(queue),
                          Normal(Cur.t + par.analyze_interval, "analysis", 0))
    /\ UNCHANGED <<status, version, srcMetrics, strat, store, stale_seen,
                   inflight, reqs, fetches, users, put_queue, metrics,
                   n_client, n_prefetch, a_par, a_now, a_last, ctor_calls,
                   thin>>

\* profile.get(bin_start, 0) * counts.sum()
ProfileCount(par, profile, bin_start) ==
    LET I == {i \in 1..Len(profile.counts) :
                 profile.ws + (i - 1) * par.profile_bin = bin_start}
    IN  IF I = {} THEN 0 ELSE profile.counts[CHOOSE i \in I : TRUE]

\* np.random.rand() < p_pred can hold: p_pred = 1 - exp(-k * p * hw / T) > 0
MayPrefetch(par, profile, t) ==
    /\ par.k > 0
    /\ ProfileCount(par, profile, t - (t % par.profile_bin)) > 0

\* _prefetch_loop, one turn after its timeout: for every profile whose draw
\* falls below p_pred, record_event and self.cache_ref.request(self.key,
\* is_prefetch=True); cache_ref and key exist only after bind_cache
HybridPrefetchTurn ==
    /\ Ready("hprefetch")
    /\ LET par == hyb.par
           eligible == {p \in hyb.profiles : MayPrefetch(par, p, Cur.t)}
           h == [hyb EXCEPT !.stepped_unbound = @ \/ ~hyb.bound]
           q == Schedule(Tail(queue),
                   Normal(Cur.t + par.prefetch_interval, "hprefetch", 0))
       IN  /\ now' = Cur.t
           /\ \E issued \in SUBSET eligible :
                IF issued = {} \/ n_prefetch >= MaxPrefetch
                THEN /\ hyb' = h
                     /\ queue' = q
                     /\ UNCHANGED <<reqs, n_prefetch>>
                ELSE IF ~hyb.bound
                THEN /\ hyb' = h
                     /\ queue' = Schedule(Tail(queue),
                                    Normal(Cur.t, "failed", 0))
                     /\ UNCHANGED <<reqs, n_prefetch>>
                ELSE /\ hyb' = [h EXCEPT !.prefetch =
                                   [issued |-> Cur.t, done |-> -1]]
                     /\ reqs' = reqs \o
                           [i \in 1..Cardinality(issued) |->
                               NewRequest(hyb.key, TRUE)]
                     /\ n_prefetch' = n_prefetch + 1
                     /\ queue' = Schedule(q,
                           Normal(Cur.t + HybridServiceTime, "pf_done", 0))
    /\ UNCHANGED <<status, version, srcMetrics, strat, store, stale_seen,
                   inflight, fetches, users, put_queue, metrics, n_client,
                   a_par, a_now, a_last, ctor_calls, thin>>

\* Cache._do_fetch of the prefetch completes: strategy.on_update(entry, now)
PrefetchDone ==
    /\ Ready("pf_done")
    /\ now' = Cur.t
    /\ strat' = HybridOnUpdate(strat)
    /\ hyb' = [HybridRecord(hyb, Cur.t) EXCEPT !.prefetch.done = Cur.t]
    /\ queue' = Tail(queue)
    /\ UNCHANGED <<status, version, srcMetrics, store, stale_seen, inflight,
                   reqs, fetches, users, put_queue, metrics, n_client,
                   n_prefetch, a_par, a_now, a_last, ctor_calls, thin>>

\* one call of the Cache on its strategy: _handle_request's is_valid on the
\* stored entry and on_access when it is valid (a lookup), or _do_fetch's
\* on_update (a completed fetch); the next call comes after some interval
HybridCall ==
    /\ Ready("hcall")
    /\ now' = Cur.t
    /\ n_client' = n_client + 1
    /\ \/ /\ hyb.update_history # <<>>
          /\ LET entry == CacheEntry(ValueOf(BoundKey), 0,
                             hyb.update_history[Len(hyb.update_history)])
                 valid == HybridIsValid(strat, entry, Cur.t)
             IN  /\ strat' = IF valid THEN HybridOnAccess(strat) ELSE strat
                 /\ hyb' = [hyb EXCEPT !.last_call =
                               [n |-> n_client + 1, op |-> "lookup",
                                t |-> entry.timestamp, valid |-> valid]]
       \/ /\ strat' = HybridOnUpdate(strat)
          /\ hyb' = [HybridRecord(hyb, Cur.t) EXCEPT !.last_call =
                        [n |-> n_client + 1, op |-> "update",
                         t |-> Cur.t, valid |-> FALSE]]
    /\ \E interval \in HybridGaps :
         queue' = IF n_client + 1 < MaxHybridCalls
                  THEN Schedule(Tail(queue),
                          Normal(Cur.t + interval, "hcall", 0))
                  ELSE Tail(queue)
    /\ UNCHANGED <<status, version, srcMetrics, store, stale_seen, inflight,
                   reqs, fetches, users, put_queue, metrics, n_prefetch,
                   a_par, a_now, a_last, ctor_calls, thin>>

InitHybrid ==
    /\ now = 0
    /\ status = "running"
    /\ version = [k \in Keys |-> 0]
    /\ srcMetrics = FALSE
    /\ store = [k \in Keys |-> NoEntry]
    /\ stale_seen = {}
    /\ inflight = [k \in Keys |-> 0]
    /\ reqs = <<>>
    /\ fetches = <<>>
    /\ users = <<>>
    /\ put_queue = <<>>
    /\ metrics = NoMetrics
    /\ n_client = 0
    /\ n_prefetch = 0
    /\ a_par = HybridBasePar
    /\ a_now = 0
    /\ a_last = NoRecalc
    /\ ctor_calls = <<>>
    /\ thin = NoThinning
    /\ strat = AdaptiveTTLStrategy(HybridBasePar, 0)
    /\ hyb = HybridPredictiveStrategy(HybridPar)
    /\ queue = ScheduleAll(<<>>,
                  <<Normal(HybridBasePar.recalc_interval, "recalc", 0),
                    Normal(HybridPar.analyze_interval, "analysis", 0),
                    Normal(HybridPar.prefetch_interval, "hprefetch", 0),
                    Normal(0, "hcall", 0)>>)

NextHybrid ==
    \/ HybridCall
    \/ BindCache
    \/ AnalysisTurn
    \/ HybridPrefetchTurn
    \/ PrefetchDone
    \/ RecalcTurn
    \/ ProcessFailed
    \/ RunEnds

SpecHybrid == InitHybrid /\ [][NextHybrid]_vars

-----------------------------------------------------------------------------
(* Simulator.__init__: the facade builds the resources, the source, the     *)
(* strategy named by cache.strategy, the cache, and the client generator    *)
(* named by simulator.arrival_pattern, in this order, on its own            *)
(* environment; the first constructor or branch that raises ends it.        *)

StrategyNames == {"fixed_ttl", "adaptive_ttl", "hybrid_predictive"}
ArrivalPatterns == {"poisson", "cyclic"}
StrategyArgs == StrategyNames \cup {"lru"}
PatternArgs == ArrivalPatterns \cup {"burst"}

\* the numbers of the configuration
SimulatorCfg ==
    [update_rate |-> 1, ttl |-> 10000, theta |-> 1, recalc_interval |-> 5000,
     arrival_rate |-> 2, cyclic_amplitude |-> 5, cyclic_period |-> 10000]
SimulatorAdaptivePar ==
    [theta |-> SimulatorCfg.theta,
     recalc_interval |-> SimulatorCfg.recalc_interval,
     min_ttl |-> 1000, max_ttl |-> 3600000, initial_ttl |-> SimulatorCfg.ttl]

\* the keywords ExternalSource.__init__ takes, and those Simulator passes
SourceKeywords == {"env", "min_service", "max_service", "resources", "metrics"}
SimulatorSourceKeywords ==
    SourceKeywords
        \cup {"update_pattern", "cycle_period", "cycle_amplitude", "peak_phase"}

\* a call with a keyword the signature lacks raises TypeError
SourceAcceptsKeywords(keywords) == keywords \subseteq SourceKeywords

SimulatorInitDefaulting(strategy, pattern) == "built"

\* Simulator.__init__: the place where it raises, or "built"
SimulatorInit(strategy, pattern) ==
    IF ~ResourceAccepts(SimulatorCfg.update_rate) THEN "SimpleResource"
    ELSE IF ~SourceAcceptsKeywords(SimulatorSourceKeywords)
    THEN "ExternalSource"
    ELSE IF strategy = "fixed_ttl" /\ ~FixedAccepts(SimulatorCfg.ttl)
    THEN "FixedTTLStrategy"
    ELSE IF strategy \in {"adaptive_ttl", "hybrid_predictive"}
            /\ ~AdaptiveAccepts(SimulatorAdaptivePar)
    THEN "AdaptiveTTLStrategy"
    ELSE IF strategy \notin StrategyNames THEN "cache.strategy"
    ELSE IF pattern = "cyclic"
            /\ ~CyclicAccepts(SimulatorCfg.arrival_rate,
                              SimulatorCfg.cyclic_amplitude,
                              SimulatorCfg.cyclic_period)
    THEN "CyclicClient"
    ELSE IF pattern \notin ArrivalPatterns THEN "simulator.arrival_pattern"
    ELSE "built"

\* the processes a built Simulator has started
SimulatorProcesses(strategy, pattern, t) ==
    <<Urgent(t, "update_init", BoundKey)>>
       \o (IF strategy = "fixed_ttl" THEN <<>>
           ELSE <<Urgent(t, "recalc_init", 0)>>)
       \o (IF strategy = "hybrid_predictive"
           THEN <<Normal(t + HybridPar.analyze_interval, "analysis", 0),
                  Normal(t + HybridPar.prefetch_interval, "hprefetch", 0)>>
           ELSE <<>>)
       \o (IF pattern = "poisson" THEN <<Urgent(t, "hclient_init", 0)>>
           ELSE <<Urgent(t, "cyclic_init", 0)>>)

\* Simulator(settings)
ConstructSimulator ==
    /\ status = "constructing"
    /\ Attempts < MaxCtorCalls
    /\ \E strategy \in StrategyArgs : \E pattern \in PatternArgs :
         LET at == SimulatorInit(strategy, pattern)
             call == CtorCall("Simulator", <<strategy, pattern, at>>,
                              at = "built")
         IN  IF at # "built"
             THEN /\ ctor_calls' = Append(ctor_calls, call)
                  /\ UNCHANGED <<queue, status, strat, a_par, hyb>>
             ELSE /\ ctor_calls' = ctor_calls \o
                        <<CtorCall("SimpleResource",
                                   <<SimulatorCfg.update_rate>>, TRUE),
                          CtorCall("Client",
                                   <<SimulatorCfg.arrival_rate>>, TRUE),
                          call>>
                  /\ strat' = IF strategy = "fixed_ttl"
                              THEN FixedTTLStrategy(SimulatorCfg.ttl)
                              ELSE AdaptiveTTLStrategy(SimulatorAdaptivePar,
                                                       now)
                  /\ a_par' = IF strategy = "fixed_ttl" THEN a_par
                              ELSE SimulatorAdaptivePar
                  /\ hyb' = IF strategy = "hybrid_predictive"
                            THEN [HybridPredictiveStrategy(HybridPar) EXCEPT
                                     !.bound = TRUE, !.key = BoundKey]
                            ELSE hyb
                  /\ queue' = ScheduleAll(queue,
                                  SimulatorProcesses(strategy, pattern, now))
                  /\ status' = "running"
    /\ UNCHANGED <<now, version, srcMetrics, store, stale_seen, inflight,
                   reqs, fetches, users, put_queue, metrics, n_client,
                   n_prefetch, a_now, a_last, thin>>

NextFailFast ==
    \/ ConstructSimpleResource
    \/ ConstructExternalSource
    \/ ConstructAdaptiveTTL
    \/ ConstructClient
    \/ ConstructSimulator
    \/ UpdateStart
    \/ UpdateGenerator
    \/ RecalcStart
    \/ RecalcTurn
    \/ ClientStart
    \/ ClientTurn
    \/ ProcessFailed
    \/ RunEnds

SpecFailFast == InitConstruct /\ [][NextFailFast]_vars

-----------------------------------------------------------------------------
(* The cache simulation with an AdaptiveTTLStrategy: the Cache, the source, *)
(* the generators and the strategy's _recalc_loop on one environment, for   *)
(* parameter sets the constructor accepts.                                  *)

\* in bounds; initial_ttl above max_ttl; recalc_interval = 0
AdaptiveRunPars ==
    {[theta |-> 1, recalc_interval |-> 6000, min_ttl |-> 1000,
      max_ttl |-> 4000, initial_ttl |-> 2000],
     [theta |-> 1, recalc_interval |-> 6000, min_ttl |-> 1000,
      max_ttl |-> 4000, initial_ttl |-> 10000],
     [theta |-> 1, recalc_interval |-> 0, min_ttl |-> 1000,
      max_ttl |-> 4000, initial_ttl |-> 2000]}

\* _recalc_loop, one turn, in a run that only the horizon ends:
\* _recalculate_ttl(env.now), then timeout(recalc_interval).  The count of
\* the turns runs through 1..MaxRecalcs again and again.
RecalcLoop ==
    /\ Ready("recalc")
    /\ now' = Cur.t
    /\ strat' = RecalculateTtl(strat, a_par, Cur.t)
    /\ a_last' = [n |-> (a_last.n % MaxRecalcs) + 1,
                  t |-> Cur.t,
                  window_start |-> strat.t_window_start,
                  n_requests |-> strat.n_requests,
                  n_misses |-> strat.n_misses, ttl_before |-> strat.ttl]
    /\ queue' = Schedule(Tail(queue),
                   Normal(Cur.t + a_par.recalc_interval, "recalc", 0))
    /\ UNCHANGED <<status, version, srcMetrics, store, stale_seen, inflight,
                   reqs, fetches, users, put_queue, metrics, n_client,
                   n_prefetch, a_par, a_now, ctor_calls, hyb, thin>>

\* The state when Environment.run starts processing timed events: every
\* process has run to its first timeout, in the order Simulator.__init__
\* creates them (update generators, recalculation loop, prefetch loop,
\* client).
InitAdaptiveRun ==
    /\ now = 0
    /\ status = "running"
    /\ version = [k \in Keys |-> 0]
    /\ srcMetrics = FALSE
    /\ a_par \in AdaptiveRunPars
    /\ strat = AdaptiveTTLStrategy(a_par, 0)
    /\ store = [k \in Keys |-> NoEntry]
    /\ stale_seen = {}
    /\ inflight = [k \in Keys |-> 0]
    /\ reqs = <<>>
    /\ fetches = <<>>
    /\ users = <<>>
    /\ put_queue = <<>>
    /\ metrics = NoMetrics
    /\ n_client = 0
    /\ n_prefetch = 0
    /\ \E tau \in [Keys -> UpdateTaus] :
         queue = ScheduleAll(<<>>,
                   [k \in 1..Cardinality(Keys) |-> Normal(tau[k], "update", k)]
                   \o <<Normal(a_par.recalc_interval, "recalc", 0),
                        Normal(PrefetchInterval, "prefetch", 0),
                        Normal(StartTime, "client", 0)>>)
    /\ a_now = 0
    /\ a_last = NoRecalc
    /\ ctor_calls = <<>>
    /\ hyb = NoHybrid
    /\ thin = NoThinning

NextAdaptiveRun ==
    \/ ClientArrival
    \/ PrefetchTurn
    \/ UpdateGenerator
    \/ RecalcLoop
    \/ HandleRequest
    \/ HitDone
    \/ FetchInit
    \/ SourceRequest
    \/ SourceGranted
    \/ SourceServed
    \/ SourceRelease
    \/ DoFetch
    \/ FetchEnd
    \/ RunEnds

SpecAdaptiveRun == InitAdaptiveRun /\ [][NextAdaptiveRun]_vars

\* Environment.run steps as long as an event is scheduled before the horizon
SpecAdaptiveRunFair == SpecAdaptiveRun /\ WF_vars(NextAdaptiveRun)

-----------------------------------------------------------------------------
(* The same simulation with simulator.start_time = 2: the client's first    *)
(* arrival comes at 2000, so that arrivals fall on the instants at which a  *)
(* prefetch started at 7000 is served.                                      *)

LateStartTime == 2000

InitLateStart ==
    /\ now = 0
    /\ status = "running"
    /\ version = [k \in Keys |-> 0]
    /\ srcMetrics = FALSE
    /\ \E ttl \in FixedTtls : strat = FixedTTLStrategy(ttl)
    /\ store = [k \in Keys |-> NoEntry]
    /\ stale_seen = {}
    /\ inflight = [k \in Keys |-> 0]
    /\ reqs = <<>>
    /\ fetches = <<>>
    /\ users = <<>>
    /\ put_queue = <<>>
    /\ metrics = NoMetrics
    /\ n_client = 0
    /\ n_prefetch = 0
    /\ \E tau \in [Keys -> UpdateTaus] :
         queue = ScheduleAll(<<>>,
                   [k \in 1..Cardinality(Keys) |-> Normal(tau[k], "update", k)]
                   \o <<Normal(PrefetchInterval, "prefetch", 0),
                        Normal(LateStartTime, "client", 0)>>)
    /\ a_par = NoPar
    /\ a_now = 0
    /\ a_last = NoRecalc
    /\ ctor_calls = <<>>
    /\ hyb = NoHybrid
    /\ thin = NoThinning

NextLateStart ==
    \/ ClientArrival
    \/ PrefetchTurn
    \/ UpdateGenerator
    \/ HandleRequest
    \/ HitDone
    \/ FetchInit
    \/ SourceRequest
    \/ SourceGranted
    \/ SourceServed
    \/ SourceRelease
    \/ DoFetch
    \/ FetchEnd
    \/ RunEnds

SpecLateStart == InitLateStart /\ [][NextLateStart]_vars

-----------------------------------------------------------------------------
\* Properties of the request path (checked under Spec)

ReqIds == 1..Len(reqs)
FetchIds == 1..Len(fetches)
HitClasses == {"hit_correct", "hit_incorrect"}
StaleClasses == {"stale_initial", "stale_repeat"}

\* a fetch is outstanding from its creation until its in-flight handle
\* has been removed
Outstanding(f) == fetches[f].pc # "processed"
Completed(f) == fetches[f].pc \in {"done", "processed"}
Classified(r) == reqs[r].pc # "init"
Resolved(r) == reqs[r].pc = "done"
UserRequest(r) == ~reqs[r].prefetch
Count(seq, x) == Cardinality({i \in DOMAIN seq : seq[i] = x})
CountIn(seq, S) == Cardinality({i \in DOMAIN seq : seq[i] \in S})

\* C1: at any instant each key has at most one outstanding fetch, it is the
\* one registered as the key's in-flight handle, every request waiting for the
\* key waits on it, and it calls the source at most once; a second fetch for
\* the key exists only after the first completed and its handle was removed.
C1_SingleFlight ==
    /\ \A f \in FetchIds : \A g \in FetchIds :
          (fetches[f].key = fetches[g].key /\ Outstanding(f) /\ Outstanding(g))
             => f = g
    /\ \A f \in FetchIds :
          /\ Outstanding(f) => inflight[fetches[f].key] = f
          /\ fetches[f].source_calls <= 1
    /\ \A k \in Keys : inflight[k] # 0 => Outstanding(inflight[k])
    /\ \A r \in ReqIds :
          reqs[r].pc = "fetch_wait" => inflight[reqs[r].key] = reqs[r].fetch

\* C1 witness: a client request and a prefetch request wait on the same fetch
\* while the source is serving it
C1_Witness ==
    \E f \in FetchIds :
       /\ fetches[f].pc = "serving"
       /\ \E r1 \in ReqIds : \E r2 \in ReqIds :
             /\ reqs[r1].fetch = f /\ reqs[r2].fetch = f
             /\ reqs[r1].pc = "fetch_wait" /\ reqs[r2].pc = "fetch_wait"
             /\ reqs[r1].prefetch /\ ~reqs[r2].prefetch

\* C2 (as stated): every request issued for a key while a fetch for that key
\* was outstanding resolves to the pair that fetch produced.
C2_AllRequestsShareFetch ==
    \A r \in ReqIds :
       (Resolved(r) /\ reqs[r].seen_inflight # 0
          /\ Completed(reqs[r].seen_inflight))
          => reqs[r].result = fetches[reqs[r].seen_inflight].result

\* C2 (amended): every request that takes the fetch path (miss, stale or
\* prefetch) while a fetch for its key is outstanding joins that fetch and
\* resolves to the pair that fetch produced, which is the pair the fetch
\* stored in the entry; a request served as a hit returns its entry instead.
C2_FetchPathSharesFetch ==
    /\ \A r \in ReqIds :
          (Classified(r) /\ reqs[r].fetch # 0) =>
             /\ reqs[r].seen_inflight # 0
                   => (reqs[r].fetch = reqs[r].seen_inflight /\ ~reqs[r].created)
             /\ reqs[r].seen_inflight = 0 => reqs[r].created
             /\ Resolved(r) =>
                   /\ Completed(reqs[r].fetch)
                   /\ reqs[r].result = fetches[reqs[r].fetch].result
    /\ \A f \in FetchIds :
          Completed(f) =>
             /\ fetches[f].stored.value = fetches[f].result[1]
             /\ fetches[f].stored.version = fetches[f].result[2]
             /\ fetches[f].stored.timestamp = fetches[f].finish
    /\ \A r \in ReqIds :
          (Resolved(r) /\ reqs[r].fetch = 0) =>
             reqs[r].result = <<reqs[r].entry.value, reqs[r].entry.version>>

\* C2 witness: two requests issued at the same instant for a key that has no
\* entry have resolved to the pair of one fetch, the second having joined it
C2_Witness ==
    \E r1 \in ReqIds : \E r2 \in ReqIds :
       /\ r1 # r2
       /\ reqs[r1].key = reqs[r2].key
       /\ reqs[r1].start = reqs[r2].start
       /\ reqs[r1].entry = NoEntry /\ reqs[r2].entry = NoEntry
       /\ reqs[r1].created /\ reqs[r2].seen_inflight = reqs[r1].fetch
       /\ Resolved(r1) /\ Resolved(r2)
       /\ reqs[r1].result = reqs[r2].result
       /\ store[reqs[r1].key].version = reqs[r1].result[2]

\* C3 (as stated): every resolved client request is recorded under exactly
\* one class of {hit_correct, hit_incorrect, stale_initial, stale_repeat,
\* miss}, in its events and in its call record alike.
C3_OneClassOfFive ==
    \A r \in ReqIds :
       (Resolved(r) /\ UserRequest(r)) =>
          /\ Len(reqs[r].events) = 1
          /\ reqs[r].events[1] \in HitClasses \cup StaleClasses \cup {"miss"}
          /\ reqs[r].call = reqs[r].events[1]

\* C3 (amended): every resolved client request is recorded under exactly one
\* of {hit_correct, hit_incorrect, miss}, in its events and in its call
\* record alike; a miss that found an expired entry carries in addition
\* exactly one stale_initial or stale_repeat event, emitted before the miss
\* event, and no other request carries a stale event.
C3_OneClassOfThree ==
    \A r \in ReqIds :
       (Classified(r) /\ UserRequest(r)) =>
          /\ CountIn(reqs[r].events, HitClasses \cup {"miss"}) = 1
          /\ CountIn(reqs[r].events, StaleClasses)
                = (IF reqs[r].fetch # 0 /\ reqs[r].entry # NoEntry THEN 1 ELSE 0)
          /\ Len(reqs[r].events)
                = CountIn(reqs[r].events, HitClasses \cup StaleClasses \cup {"miss"})
          /\ reqs[r].events[Len(reqs[r].events)] \in HitClasses \cup {"miss"}
          /\ Resolved(r) => reqs[r].call = reqs[r].events[Len(reqs[r].events)]

\* C3 witness: a resolved client request that found an expired entry carries
\* a stale event followed by a miss event, and its call record says miss
C3_Witness ==
    \E r \in ReqIds :
       /\ Resolved(r) /\ UserRequest(r)
       /\ reqs[r].events = <<"stale_initial", "miss">>
       /\ reqs[r].call = "miss"

\* C4: each completed fetch has incremented exactly one of the two counters:
\* the redundant-fetch counter iff an entry existed before the fetch and the
\* fetched version equals that entry's version, the genuine-update counter
\* otherwise; a fetch that has not completed has incremented neither, however
\* many requests joined it.
C4_OneCounterPerFetch ==
    /\ \A f \in FetchIds :
          IF Completed(f)
          THEN fetches[f].counted =
                  (IF fetches[f].pre_version # NoEntry.version
                      /\ fetches[f].result[2] = fetches[f].pre_version
                   THEN "redundant" ELSE "update")
          ELSE fetches[f].counted = "none"
    /\ metrics.redundant_misses
          = Cardinality({f \in FetchIds : fetches[f].counted = "redundant"})
    /\ metrics.cache_updates
          = Cardinality({f \in FetchIds : fetches[f].counted = "update"})
    /\ metrics.redundant_misses + metrics.cache_updates
          = Cardinality({f \in FetchIds : Completed(f)})

\* C4 witness: a fetch that two requests shared brought back the version the
\* entry already had and was counted as redundant
C4_Witness ==
    \E f \in FetchIds :
       /\ fetches[f].pc = "processed"
       /\ Len(fetches[f].waiters) >= 2
       /\ fetches[f].pre_version # NoEntry.version
       /\ fetches[f].counted = "redundant"
       /\ metrics.redundant_misses >= 1


\* C8: every resource's version is 0 at the start and afterwards changes only
\* in a step of that resource's update generator, which adds exactly 1; no
\* step of the cache or of a source request changes it.
C8_VersionStepsByOne ==
    /\ \A k \in Keys : version[k] = 0
    /\ [][\A k \in Keys :
            \/ version'[k] = version[k]
            \/ /\ version'[k] = version[k] + 1
               /\ queue # <<>>
               /\ Head(queue).kind = "update"
               /\ Head(queue).id = k]_vars

\* C8 witness: a resource has been updated and a request answered by the
\* source afterwards has returned the new version
C8_Witness ==
    \E r \in ReqIds :
       /\ Resolved(r)
       /\ reqs[r].fetch # 0
       /\ version[reqs[r].key] = 1
       /\ reqs[r].result[2] = 1

FixedTtl == strat.ttl.num
Age(r) == reqs[r].start - reqs[r].entry.timestamp
FirstToFindStale(r) ==
    ~\E q \in ReqIds :
        /\ q < r
        /\ reqs[q].key = reqs[r].key
        /\ reqs[q].entry = reqs[r].entry
        /\ CountIn(reqs[q].events, StaleClasses) > 0

C9_Classification ==
    /\ strat.kind = "fixed"
    /\ strat.n_requests = 0 /\ strat.n_misses = 0 /\ strat.t_window_start = 0
    /\ \A r \in ReqIds :
          (Classified(r) /\ UserRequest(r) /\ reqs[r].entry # NoEntry) =>
             /\ reqs[r].events[1] \in HitClasses <=> Age(r) <= FixedTtl
             /\ reqs[r].events[1] \in StaleClasses <=> Age(r) > FixedTtl
    /\ \A r \in ReqIds :
          (/\ Classified(r) /\ UserRequest(r)
           /\ FixedTtl = 10000
           /\ reqs[r].entry # NoEntry /\ reqs[r].entry.timestamp = 0) =>
             /\ (reqs[r].start = 5000
                    /\ reqs[r].entry.version = reqs[r].true_version)
                   => reqs[r].events = <<"hit_correct">>
             /\ (reqs[r].start = 15000 /\ FirstToFindStale(r)
                    /\ reqs[r].seen_inflight = 0)
                   => /\ reqs[r].events = <<"stale_initial", "miss">>
                      /\ reqs[r].created
                      /\ fetches[reqs[r].fetch].key = reqs[r].key
                      /\ fetches[reqs[r].fetch].created_at = 15000

\* C9: under FixedTTL an entry is valid iff now - timestamp <= ttl, the
\* boundary included; on_access and on_update change nothing in the strategy;
\* with ttl = 10 an entry fetched at t = 0 and still current gives hit_correct
\* at t = 5, and at t = 15, no fetch having been started in between, gives
\* stale_initial and a new fetch.
C9_FixedTtlValidity == []C9_Classification /\ [][strat' = strat]_vars

\* C9 witness: with ttl = 10 the entry fetched at t = 0 served a hit_correct
\* at t = 5 and was found stale at t = 15 by a request that started a fetch
C9_Witness ==
    \E r1 \in ReqIds : \E r2 \in ReqIds :
       /\ FixedTtl = 10000
       /\ reqs[r1].key = reqs[r2].key
       /\ reqs[r1].entry # NoEntry /\ reqs[r1].entry.timestamp = 0
       /\ reqs[r2].entry = reqs[r1].entry
       /\ reqs[r1].start = 5000 /\ reqs[r1].events = <<"hit_correct">>
       /\ reqs[r2].start = 15000
       /\ reqs[r2].events = <<"stale_initial", "miss">>
       /\ reqs[r2].created /\ Resolved(r2)
       /\ metrics.cache_updates + metrics.redundant_misses >= 2

\* C10: a client request that finds an entry the strategy declares valid is
\* recorded as hit_correct iff the entry's version equals the resource's
\* version at that instant and as hit_incorrect otherwise, calls on_access
\* exactly once, starts and joins no fetch, and returns the entry's
\* (value, version) when the read delay has elapsed.
C10_ValidEntryIsHit ==
    \A r \in ReqIds :
       (/\ Classified(r) /\ UserRequest(r)
        /\ reqs[r].entry # NoEntry /\ Age(r) <= FixedTtl) =>
          /\ reqs[r].events =
                <<IF reqs[r].entry.version = reqs[r].true_version
                  THEN "hit_correct" ELSE "hit_incorrect">>
          /\ reqs[r].accesses = 1
          /\ reqs[r].fetch = 0 /\ ~reqs[r].created
          /\ \A f \in FetchIds :
                \A i \in DOMAIN fetches[f].waiters : fetches[f].waiters[i] # r
          /\ IF Resolved(r)
             THEN /\ reqs[r].finish = reqs[r].start + HitDelay
                  /\ reqs[r].result
                        = <<reqs[r].entry.value, reqs[r].entry.version>>
                  /\ reqs[r].call = reqs[r].events[1]
                  /\ reqs[r].call_version = reqs[r].entry.version
             ELSE now <= reqs[r].start + HitDelay

\* C10 witness: a request has been served an entry whose version the resource
\* had left behind, and it returned the entry's pair as hit_incorrect
C10_Witness ==
    \E r \in ReqIds :
       /\ Resolved(r) /\ UserRequest(r)
       /\ reqs[r].events = <<"hit_incorrect">>
       /\ reqs[r].entry.version = 0 /\ reqs[r].true_version = 1
       /\ reqs[r].result = <<ValueOf(reqs[r].key), 0>>
       /\ reqs[r].finish = reqs[r].start + HitDelay

-----------------------------------------------------------------------------
\* Properties of AdaptiveTTLStrategy (checked under SpecAdaptive)

Recalculated == a_last.n > 0
LastWindow == a_last.t - a_last.window_start
LastUpdates == a_last.n_misses
LastHits == a_last.n_requests - a_last.n_misses
TtlIs(c) == NumLeInt(strat.ttl, c) /\ NumGeInt(strat.ttl, c)
\* the TTL equals the fraction xn / xd
TtlIsFraction(xn, xd) ==
    strat.ttl.num * xd = xn * strat.ttl.den * strat.ttl.scale
\* the TTL equals xn / xd clamped to [min_ttl, max_ttl], the way
\* max(min_ttl, min(max_ttl, x)) clamps
TtlIsClamped(xn, xd) ==
    IF xn \div xd >= a_par.max_ttl
    THEN TtlIs(IF a_par.max_ttl > a_par.min_ttl
               THEN a_par.max_ttl ELSE a_par.min_ttl)
    ELSE IF CeilDiv(xn, xd) > a_par.min_ttl
    THEN TtlIsFraction(xn, xd)
    ELSE TtlIs(a_par.min_ttl)

\* C5: every TTL a recalculation produces lies in [min_ttl, max_ttl], for
\* every window content and every parameter set the constructor accepts.
C5_TtlWithinBounds ==
    Recalculated =>
       /\ NumGeInt(strat.ttl, a_par.min_ttl)
       /\ NumLeInt(strat.ttl, a_par.max_ttl)

\* C6: after a recalculation over a window in which on_update was never
\* called the TTL equals max_ttl, whatever the number of on_access calls and
\* the previous TTL.
C6_NoUpdateGivesMaxTtl ==
    (Recalculated /\ LastUpdates = 0) => TtlIs(a_par.max_ttl)

-----------------------------------------------------------------------------
\* Further properties of the request path (checked under Spec)

HasStaleEvent(r) == CountIn(reqs[r].events, StaleClasses) > 0
\* an earlier client request found the key stale and waits on the same fetch,
\* so no fetch for the key has completed since
FlaggedBefore(r) ==
    \E q \in ReqIds :
       /\ q < r
       /\ UserRequest(q)
       /\ reqs[q].key = reqs[r].key
       /\ HasStaleEvent(q)
       /\ reqs[q].fetch = reqs[r].fetch

\* C11: a client request that is not served as a hit is classified miss when
\* the store has no entry for its key (so the first access to a key is a
\* miss), stale_initial when an entry exists and no earlier request has found
\* the key stale since the key's last completed fetch, and stale_repeat when
\* an entry exists and the key is already flagged.
C11_MissOrStale ==
    /\ \A r \in ReqIds :
          (Classified(r) /\ UserRequest(r) /\ reqs[r].fetch # 0) =>
             reqs[r].events =
                (IF reqs[r].entry = NoEntry THEN <<"miss">>
                 ELSE IF FlaggedBefore(r) THEN <<"stale_repeat", "miss">>
                 ELSE <<"stale_initial", "miss">>)
    /\ \A r \in ReqIds :
          (/\ Classified(r) /\ UserRequest(r)
           /\ ~\E q \in ReqIds : q < r /\ reqs[q].key = reqs[r].key)
             => reqs[r].events = <<"miss">>
    /\ metrics.stale_initial
          = Cardinality({r \in ReqIds : Count(reqs[r].events, "stale_initial") = 1})
    /\ metrics.stale_repeat
          = Cardinality({r \in ReqIds : Count(reqs[r].events, "stale_repeat") = 1})

\* C11 witness: the first request for a key was a miss, a later one found
\* the entry stale first, and a third found the key already flagged
C11_Witness ==
    \E r1 \in ReqIds : \E r2 \in ReqIds : \E r3 \in ReqIds :
       /\ reqs[r1].key = reqs[r2].key /\ reqs[r2].key = reqs[r3].key
       /\ reqs[r1].events = <<"miss">>
       /\ reqs[r2].events = <<"stale_initial", "miss">>
       /\ reqs[r3].events = <<"stale_repeat", "miss">>
       /\ Resolved(r3)

\* C12: a key leaves the stale-seen set exactly in the step in which a fetch
\* for that key completes: that step leaves the key outside the set, no other
\* step removes a key, and a key enters the set only when a client request
\* for it finds its entry stale.
C12_StaleSeenCleared ==
    [][\A k \in Keys :
         LET completes == /\ queue # <<>>
                          /\ Head(queue).kind = "src_end"
                          /\ fetches[Head(queue).id].key = k
             marks == /\ queue # <<>>
                      /\ Head(queue).kind = "req_init"
                      /\ reqs[Head(queue).id].key = k
                      /\ ~reqs[Head(queue).id].prefetch
                      /\ CountIn(reqs'[Head(queue).id].events, StaleClasses) > 0
         IN  /\ (k \in stale_seen /\ k \notin stale_seen') => completes
             /\ completes => k \notin stale_seen'
             /\ (k \notin stale_seen /\ k \in stale_seen') => marks]_vars

\* C12 witness: a key was flagged stale, stayed flagged while a fetch of the
\* other key completed, and was cleared by its own fetch
C12_Witness ==
    \E r \in ReqIds : \E f \in FetchIds :
       /\ UserRequest(r) /\ HasStaleEvent(r) /\ Resolved(r)
       /\ reqs[r].key \notin stale_seen
       /\ fetches[f].key # reqs[r].key
       /\ Completed(f)
       /\ reqs[r].start < fetches[f].finish
       /\ fetches[f].served_at <= fetches[reqs[r].fetch].granted_at


\* C13: a prefetch request skips the validity check and the hit/stale/miss
\* classification even when a valid entry exists and goes straight to the
\* consolidated fetch, and it is not counted as a miss: it adds no miss
\* latency sample and no miss-typed call record.
C13_PrefetchNotAMiss ==
    /\ \A r \in ReqIds :
          (Classified(r) /\ reqs[r].prefetch) =>
             /\ reqs[r].events = <<"prefetch_attempt">>
             /\ reqs[r].fetch # 0
             /\ reqs[r].accesses = 0
             /\ Resolved(r) => reqs[r].call # "miss"
    /\ metrics.miss_times
          = Cardinality({r \in ReqIds :
                            Resolved(r) /\ UserRequest(r) /\ reqs[r].fetch # 0})


\* C17: the timestamp of every stored entry is the time at which the source
\* reported the entry's version, the completion time of the fetch that wrote
\* the entry; the entry is written only by a completing fetch of its key, so
\* no hit and no stale observation changes the timestamp.
C17_TimestampIsFetchTime ==
    /\ [](\A k \in Keys :
            store[k] # NoEntry =>
               \E f \in FetchIds :
                  /\ fetches[f].key = k
                  /\ Completed(f)
                  /\ fetches[f].stored = store[k]
                  /\ store[k].version = fetches[f].result[2]
                  /\ store[k].timestamp = fetches[f].served_at
                  /\ store[k].timestamp = fetches[f].finish
                  /\ store[k].timestamp <= now)
    /\ [][\A k \in Keys :
            store'[k] # store[k] =>
               /\ Head(queue).kind = "src_end"
               /\ fetches[Head(queue).id].key = k
               /\ store'[k].timestamp = Head(queue).t]_vars

\* C17 witness: an entry written some time after its fetch was requested has
\* served a hit later and has then been found stale, and it is still stored
\* with the time of its fetch
C17_Witness ==
    \E r1 \in ReqIds : \E r2 \in ReqIds :
       /\ reqs[r1].key = reqs[r2].key
       /\ CountIn(reqs[r1].events, HitClasses) = 1 /\ Resolved(r1)
       /\ HasStaleEvent(r2)
       /\ reqs[r1].entry = store[reqs[r1].key]
       /\ reqs[r2].entry = store[reqs[r2].key]
       /\ store[reqs[r1].key].timestamp > 0
       /\ store[reqs[r1].key].timestamp < reqs[r1].start

\* C18: when a fetch completes, the step in which its waiters observe the
\* completion removes the key's in-flight handle once, all its waiters
\* resolve with the fetch's pair and none fails, and a handle is removed only
\* in that step of the fetch it names, never by waiters of another fetch.
C18_HandleRemovedOnce ==
    /\ [](\A k \in Keys : inflight[k] # 0 => Outstanding(inflight[k]))
    /\ [](status = "crashed" => srcMetrics)
    /\ [][\A k \in Keys :
            (inflight[k] # 0 /\ inflight'[k] # inflight[k]) =>
               /\ inflight'[k] = 0
               /\ Head(queue).kind = "fetch_end"
               /\ Head(queue).id = inflight[k]]_vars
    /\ [][Ready("fetch_end") =>
            LET f == Head(queue).id
            IN  /\ status' = status
                /\ inflight'[fetches[f].key] # f
                /\ \A k \in Keys : inflight[k] # f => inflight'[k] = inflight[k]
                /\ \A i \in DOMAIN fetches[f].waiters :
                      /\ reqs'[fetches[f].waiters[i]].pc = "done"
                      /\ reqs'[fetches[f].waiters[i]].result = fetches[f].result]_vars

\* C18 witness: a fetch with two waiters has been observed by both, its
\* handle is gone, and the key's handle now names a newer fetch
C18_Witness ==
    \E f \in FetchIds : \E g \in FetchIds :
       /\ f < g
       /\ fetches[f].key = fetches[g].key
       /\ fetches[f].pc = "processed"
       /\ Len(fetches[f].waiters) >= 2
       /\ \A i \in DOMAIN fetches[f].waiters : Resolved(fetches[f].waiters[i])
       /\ inflight[fetches[g].key] = g
       /\ status = "running"

-----------------------------------------------------------------------------
\* Properties of ExternalSource (checked under SpecSource)

Admitted(f) == fetches[f].arrival # -1
Granting(f) == fetches[f].granted_at # -1
Served(f) == fetches[f].served_at # -1
InService(f) == Granting(f) /\ ~Served(f)
ServedBefore(f, g) ==
    Granting(g) => (Served(f) /\ fetches[f].served_at <= fetches[g].granted_at)

\* C14: the source serves at most one request at any instant, whatever the
\* resources: the service intervals of two requests never overlap, and a
\* request admitted while the server is busy is granted the server only when
\* the request in service has released it.
C14_OneInService ==
    /\ Cardinality({f \in FetchIds : InService(f)}) <= 1
    /\ Len(users) <= 1
    /\ \A f \in FetchIds : InService(f) => users = <<f>>
    /\ \A f \in FetchIds : \A g \in FetchIds :
          (f # g /\ Granting(f) /\ Granting(g)) =>
             \/ Served(f) /\ fetches[f].served_at <= fetches[g].granted_at
             \/ Served(g) /\ fetches[g].served_at <= fetches[f].granted_at
    /\ \A f \in FetchIds : \A g \in FetchIds :
          (/\ f # g /\ Admitted(f) /\ Granting(g)
           /\ fetches[g].granted_at <= fetches[f].arrival
           /\ g < f
           /\ ~(Served(g) /\ fetches[g].served_at <= fetches[f].arrival))
             => ServedBefore(g, f)

\* C14 witness: a request for another resource was admitted while the server
\* was busy and got the server at the instant the first was released
C14_Witness ==
    \E f \in FetchIds : \E g \in FetchIds :
       /\ fetches[f].key # fetches[g].key
       /\ Served(f) /\ Served(g)
       /\ fetches[g].granted_at <= fetches[f].arrival
       /\ fetches[f].arrival < fetches[g].served_at
       /\ fetches[f].granted_at = fetches[g].served_at
       /\ fetches[f].served_at > fetches[f].granted_at

\* C15: the version a source request returns is the resource's version at
\* the moment its service completes, not at admission: the result is set in
\* the step that ends the service, to the version the resource has then, so
\* it includes every increment made while the request waited or was served.
C15_VersionAtCompletion ==
    /\ [](\A f \in FetchIds :
            Served(f) =>
               /\ fetches[f].result[1] = ValueOf(fetches[f].key)
               /\ fetches[f].result[2] >= fetches[f].arrival_version
               /\ fetches[f].result[2] <= version[fetches[f].key])
    /\ [][\A f \in 1..Len(fetches') :
            LET before == IF f <= Len(fetches) THEN fetches[f].result ELSE <<>>
            IN  fetches'[f].result # before =>
                   /\ Head(queue).kind = "service_done"
                   /\ Head(queue).id = f
                   /\ fetches'[f].result[2] = version[fetches[f].key]
                   /\ fetches'[f].served_at = Head(queue).t]_vars

\* C15 witness: a request waited in the queue, the resource was updated
\* after its admission, and it returned the new version
C15_Witness ==
    \E f \in FetchIds :
       /\ fetches[f].pc = "done"
       /\ fetches[f].granted_at > fetches[f].arrival
       /\ fetches[f].arrival_version = 0
       /\ fetches[f].result = <<ValueOf(fetches[f].key), 1>>

\* C16: the source serves requests in admission order: a request admitted at
\* an earlier time has completed its service before a request admitted later
\* gets the server, and requests admitted at the same time are served in the
\* order in which they were issued.
C16_AdmissionOrder ==
    \A f \in FetchIds : \A g \in FetchIds :
       (/\ Admitted(f) /\ Admitted(g)
        /\ \/ fetches[f].arrival < fetches[g].arrival
           \/ fetches[f].arrival = fetches[g].arrival /\ f < g)
          => ServedBefore(f, g)

\* C16 witness: three requests admitted at the same instant were served one
\* after the other in the order of their issue
C16_Witness ==
    /\ Len(fetches) >= 3
    /\ fetches[1].arrival = fetches[2].arrival
    /\ fetches[2].arrival = fetches[3].arrival
    /\ Served(1) /\ Served(2) /\ Served(3)
    /\ fetches[1].served_at > fetches[1].granted_at
    /\ fetches[2].granted_at = fetches[1].served_at
    /\ fetches[2].served_at > fetches[2].granted_at
    /\ fetches[3].granted_at = fetches[2].served_at


-----------------------------------------------------------------------------
\* Properties of the constructors (checked under SpecConstruct)

CallIds == 1..Len(ctor_calls)
Accepted(ctor) ==
    \E c \in CallIds : ctor_calls[c].ctor = ctor /\ ~ctor_calls[c].raised
HasEvent(kinds) == \E i \in DOMAIN queue : queue[i].kind \in kinds
\* the step is a constructor call of one of ctors that raised
RaisedIn(ctors) ==
    /\ Len(ctor_calls') = Len(ctor_calls) + 1
    /\ ctor_calls'[Len(ctor_calls')].ctor \in ctors
    /\ ctor_calls'[Len(ctor_calls')].raised

\* C19: FixedTTLStrategy(ttl) raises iff ttl < 0, so ttl = 0 is accepted;
\* AdaptiveTTLStrategy raises iff theta <= 0; a constructor call that raises
\* changes nothing, and as long as no AdaptiveTTLStrategy was accepted no
\* recalculation task is scheduled and none has run.
C19_StrategyConstructors ==
    /\ [](\A c \in CallIds :
            /\ ctor_calls[c].ctor = "FixedTTLStrategy" =>
                  /\ ctor_calls[c].raised <=> ctor_calls[c].args[1] < 0
                  /\ ctor_calls[c].args[1] = 0 => ~ctor_calls[c].raised
            /\ ctor_calls[c].ctor = "AdaptiveTTLStrategy" =>
                  (ctor_calls[c].raised <=> ctor_calls[c].args[1] <= 0))
    /\ [](~Accepted("AdaptiveTTLStrategy") =>
            /\ ~HasEvent({"recalc_init", "recalc"})
            /\ a_last.n = 0
            /\ strat.kind # "adaptive")
    /\ []((~Accepted("AdaptiveTTLStrategy") /\ ~Accepted("FixedTTLStrategy")) =>
            (strat = NoStrategy /\ status = "constructing"))
    /\ [][RaisedIn({"FixedTTLStrategy", "AdaptiveTTLStrategy"}) =>
            /\ queue' = queue
            /\ strat' = strat
            /\ a_par' = a_par
            /\ status' = status]_vars

\* C19 witness: FixedTTLStrategy(-1) and AdaptiveTTLStrategy(theta = 0) have
\* raised, nothing was scheduled, and FixedTTLStrategy(0) was then accepted
C19_Witness ==
    /\ ctor_calls = <<CtorCall("FixedTTLStrategy", <<-1>>, FALSE),
                      CtorCall("AdaptiveTTLStrategy",
                               <<0, 60000, 1000, 3600000>>, FALSE),
                      CtorCall("FixedTTLStrategy", <<0>>, TRUE)>>
    /\ queue = <<>>
    /\ strat.kind = "fixed" /\ strat.ttl = Num(0)

\* C20: CyclicClient raises iff amplitude lies outside [0, 1] or lambda_base
\* <= 0 or period <= 0; a call that raises changes nothing, and as long as no
\* CyclicClient was accepted no arrival task is scheduled and no request has
\* been issued.
C20_CyclicConstructor ==
    /\ [](\A c \in CallIds :
            ctor_calls[c].ctor = "CyclicClient" =>
               (ctor_calls[c].raised <=>
                   \/ ctor_calls[c].args[2] < 0
                   \/ ctor_calls[c].args[2] > AmplitudeOne
                   \/ ctor_calls[c].args[1] <= 0
                   \/ ctor_calls[c].args[3] <= 0))
    /\ [](~Accepted("CyclicClient") =>
            /\ ~HasEvent({"cyclic_init", "cyclic_begin", "cyclic"})
            /\ reqs = <<>>
            /\ n_client = 0
            /\ status # "running")
    /\ [][RaisedIn({"CyclicClient"}) =>
            /\ queue' = queue
            /\ reqs' = reqs
            /\ n_client' = n_client
            /\ status' = status]_vars

\* C20 witness: after a strategy was built, a CyclicClient with lambda_base
\* = 0 and one with period = 0 have raised; no task, no request
C20_Witness ==
    /\ Len(ctor_calls) = 3
    /\ ctor_calls[2] = CtorCall("CyclicClient", <<0, 10, 10000>>, FALSE)
    /\ ctor_calls[3] = CtorCall("CyclicClient", <<2, 10, 0>>, FALSE)
    /\ ~HasEvent({"cyclic_init", "cyclic_begin", "cyclic"})
    /\ reqs = <<>>

-----------------------------------------------------------------------------
\* Properties of the run's tasks (checked under Spec)

\* C23: once the simulation has started, no task ends in an error: the run
\* never stops on an exception of an update step, a source request, a cache
\* request or a prefetch step.
C23_NoTaskFails == status # "crashed"

-----------------------------------------------------------------------------
\* Properties of the constructors' argument checks (checked under
\* SpecFailFast)

\* C21: every negative TTL and every non-positive rate is rejected when the
\* component is constructed: an AdaptiveTTLStrategy call with a negative
\* initial, minimum or maximum TTL raises, a SimpleResource call with
\* update_rate <= 0 raises, a Client call with arrival_rate <= 0 or with no
\* rate raises; so no run stops on an error.
C21_RatesAndTtlsRejected ==
    /\ \A c \in CallIds :
         /\ ctor_calls[c].ctor = "AdaptiveTTLStrategy" =>
               ((\E i \in 2..4 : ctor_calls[c].args[i] < 0)
                    => ctor_calls[c].raised)
         /\ ctor_calls[c].ctor = "SimpleResource" =>
               (ctor_calls[c].args[1] <= 0 => ctor_calls[c].raised)
         /\ ctor_calls[c].ctor = "Client" =>
               ((IF ctor_calls[c].args = <<>> THEN TRUE
                 ELSE ctor_calls[c].args[1] <= 0) => ctor_calls[c].raised)
    /\ status # "crashed"

-----------------------------------------------------------------------------
\* Properties of HybridPredictiveStrategy (checked under SpecHybrid)

History == hyb.update_history
\* the step is a call of the Cache on the strategy
CallMade == hyb'.last_call.n # hyb.last_call.n

\* C24: on the three-method contract HybridPredictive does what its base
\* does: is_valid(entry, now) returns base.is_valid(entry, now), on_access
\* changes the base's counters as base.on_access does and leaves the history
\* alone, on_update changes them as base.on_update does and appends the
\* update time to the history.
C24_DelegatesToBase ==
    /\ [][(CallMade /\ hyb'.last_call.op = "lookup") =>
            LET entry == CacheEntry(ValueOf(BoundKey), 0, hyb'.last_call.t)
            IN  /\ hyb'.last_call.valid = IsValid(strat, entry, now')
                /\ strat' = IF IsValid(strat, entry, now')
                            THEN OnAccess(strat) ELSE strat
                /\ hyb'.update_history = History]_vars
    /\ [][((CallMade /\ hyb'.last_call.op = "update")
              \/ hyb'.prefetch.done # hyb.prefetch.done) =>
            /\ strat' = OnUpdate(strat)
            /\ hyb'.update_history = Append(History, now')]_vars

\* C24 witness: after two updates, a lookup at a later instant found the
\* entry valid and was counted as an access by the base
C24_Witness ==
    /\ hyb.last_call.op = "lookup"
    /\ hyb.last_call.valid
    /\ hyb.last_call.t < now
    /\ Len(History) = 2
    /\ strat.n_requests = 3
    /\ strat.n_misses = 2

\* C25: the history stays bounded because timestamps that fell out of the
\* trailing history window are dropped: after an analysis pass at time t it
\* holds no timestamp before t - history_window.
C25_HistoryWithinWindow ==
    \A i \in 1..Len(History) :
        History[i] >= hyb.last_analysis - hyb.par.history_window

\* C26: once a prefetch issued by the strategy has completed, the history
\* holds no timestamp at or before the prefetch time.
C26_PrunedAfterPrefetch ==
    hyb.prefetch.done >= 0 =>
        \A i \in 1..Len(History) : History[i] > hyb.prefetch.issued

\* C27: at every point of the run the strategy retains at most max_periods
\* period profiles.
C27_AtMostMaxPeriods == Cardinality(hyb.profiles) <= hyb.par.max_periods

\* C28: no background task of the strategy performs a step while the
\* strategy is unbound, and every prefetch request was issued by a bound
\* strategy for its key, with is_prefetch set.
C28_NoStepBeforeBind ==
    /\ ~hyb.stepped_unbound
    /\ \A r \in 1..Len(reqs) :
          reqs[r].prefetch => (hyb.bound /\ reqs[r].key \in 1..hyb.key)

C29_ThinningLoop ==
    /\ [](thin.n > 0 =>
            LET last == Len(thin.cands)
            IN  /\ last >= 1
                /\ \A i \in 1..last : thin.cands[i].accepted <=> (i = last)
                /\ thin.cands[1].t >= thin.start
                /\ \A i \in 2..last : thin.cands[i].t >= thin.cands[i - 1].t
                /\ thin.start <= now
                /\ \A e \in DOMAIN queue :
                      queue[e].kind = "cyclic" =>
                         /\ queue[e].t = thin.cands[last].t
                         /\ queue[e].t >= now)
    /\ [][thin'.n # thin.n =>
            LET t_acc == thin'.cands[Len(thin'.cands)].t
            IN  /\ now' = thin'.start
                /\ Len(reqs') - Len(reqs) = (IF thin.n = 0 THEN 0 ELSE 1)
                /\ Cardinality({e \in DOMAIN queue' :
                                   queue'[e].kind = "cyclic"}) = 1
                /\ \E e \in DOMAIN queue' :
                      queue'[e].kind = "cyclic" /\ queue'[e].t = t_acc
                /\ t_acc >= now'
                /\ thin.n > 0 => t_acc >= thin.cands[Len(thin.cands)].t]_vars
    /\ [][Len(reqs') # Len(reqs) =>
            /\ Len(reqs') = Len(reqs) + 1
            /\ thin.n = Len(reqs')
            /\ now' = thin.cands[Len(thin.cands)].t]_vars

\* C29 witness: the third loop rejected a candidate later than its entry time
\* and accepted a still later one, the generator slept until that time and
\* issued the third request there
C29_Witness ==
    /\ thin.n = 3
    /\ Len(thin.cands) = 2
    /\ ~thin.cands[1].accepted
    /\ thin.cands[1].t > thin.start
    /\ thin.cands[2].t > thin.cands[1].t
    /\ now = thin.cands[2].t
    /\ Len(reqs) = 3

\* C31: every run of an accepted configuration terminates: virtual time
\* reaches the horizon, the run stops there, and once it has stopped no
\* pending task takes a further step.
C31_RunTerminates ==
    /\ <>(status = "finished" /\ now = SimTime)
    /\ [][status = "finished" => vars' = vars]_vars

\* some Cache.request has not returned yet
Unresolved == \E r \in DOMAIN reqs : reqs[r].pc # "done"

\* C32: as long as the horizon does not end the run, every Cache.request
\* that was made resolves: whenever a request is unresolved, a later state has
\* every request made so far resolved with its (value, version) pair, or the
\* run has reached the horizon.
C32_EveryRequestResolves ==
    /\ Unresolved ~> (~Unresolved \/ status = "finished")
    /\ [](\A r \in DOMAIN reqs :
            reqs[r].pc = "done" =>
               /\ Len(reqs[r].result) = 2
               /\ reqs[r].result[1] = ValueOf(reqs[r].key))

\* the hits classified and the fetches completed by the step
NewHits ==
    Cardinality({r \in DOMAIN reqs :
                    reqs[r].pc = "init" /\ reqs'[r].pc = "hit_wait"})
NewFetchesDone ==
    Cardinality({f \in DOMAIN fetches :
                    fetches[f].pc = "served" /\ fetches'[f].pc = "done"})
\* the step is a turn of the recalculation loop
RecalcStep ==
    /\ status = "running" /\ status' = "running"
    /\ queue # <<>>
    /\ Head(queue).kind = "recalc"
\* the hits classified and the fetches completed at or after time t
HitsSince(t) ==
    Cardinality({r \in DOMAIN reqs :
                    /\ reqs[r].call_type \in {"hit_correct", "hit_incorrect"}
                    /\ reqs[r].start >= t})
FetchesSince(t) ==
    Cardinality({f \in DOMAIN fetches :
                    /\ fetches[f].pc \in {"done", "processed"}
                    /\ fetches[f].finish >= t})

\* C33: a step that is not a recalculation adds to the request counter the
\* hits it classified and the fetches it completed, and to the update counter
\* the fetches it completed, whatever the fetch was (first fill, version
\* change, redundant, prefetch); a recalculation sets both counters to 0 and
\* the window start to its time.  So the update counter is the number of
\* fetches completed in the window and the request counter exceeds it by the
\* number of hits of the window (what happened at the very instant of the
\* window start falls on either side of the recalculation).
C33_WindowCounters ==
    /\ [][IF RecalcStep
          THEN /\ strat'.n_requests = 0
               /\ strat'.n_misses = 0
               /\ strat'.t_window_start = now'
          ELSE /\ strat'.n_requests =
                     strat.n_requests + NewHits + NewFetchesDone
               /\ strat'.n_misses = strat.n_misses + NewFetchesDone
               /\ strat'.t_window_start = strat.t_window_start]_vars
    /\ [](LET ws == strat.t_window_start
              hits == strat.n_requests - strat.n_misses
          IN  /\ FetchesSince(ws + 1) <= strat.n_misses
              /\ strat.n_misses <= FetchesSince(ws)
              /\ HitsSince(ws + 1) <= hits
              /\ hits <= HitsSince(ws)
              /\ a_last.n = 0 =>
                    /\ strat.n_misses = FetchesSince(0)
                    /\ hits = HitsSince(0))

\* C33 witness: in one window a hit and two completed fetches were counted,
\* one of the fetches redundant and one started by a prefetch
C33_Witness ==
    /\ strat.n_requests = 3
    /\ strat.n_misses = 2
    /\ \E f \in DOMAIN fetches :
          /\ fetches[f].counted = "redundant"
          /\ fetches[f].finish >= strat.t_window_start
    /\ \E f \in DOMAIN fetches :
          /\ fetches[f].pc \in {"done", "processed"}
          /\ fetches[f].finish >= strat.t_window_start
          /\ reqs[fetches[f].waiters[1]].prefetch

\* C34: the store changes only in a step that completes a fetch, and then
\* only at that fetch's key, where the entry becomes the one the fetch built;
\* a hit, a stale or miss classification, the start of a fetch and the
\* removal of an in-flight handle leave the store as it is.  An entry, once
\* stored, stays as it was built until a completed fetch puts another in its
\* place: every entry of the store is the entry some completed fetch of that
\* key built.
C34_StoreChangesOnlyOnFetch ==
    /\ [][store' # store =>
            \E f \in DOMAIN fetches :
               /\ fetches[f].pc = "served" /\ fetches'[f].pc = "done"
               /\ store'[fetches[f].key] = fetches'[f].stored
               /\ \A k \in Keys \ {fetches[f].key} : store'[k] = store[k]]_vars
    /\ [][\A r \in DOMAIN reqs :
            reqs[r].pc = "init" /\ reqs'[r].pc # "init" => store' = store]_vars
    /\ [][inflight' # inflight => store' = store]_vars
    /\ [](\A k \in Keys :
            store[k] # NoEntry =>
               \E f \in DOMAIN fetches :
                  /\ fetches[f].key = k
                  /\ fetches[f].pc \in {"done", "processed"}
                  /\ fetches[f].stored = store[k])

\* C34 witness: a second fetch of a key has replaced the entry of its first
\* fetch, the entry of the other key, stored before, is still the one its
\* fetch built, and a hit was served in between
C34_Witness ==
    /\ \E f, g \in DOMAIN fetches :
          /\ f < g
          /\ fetches[f].key = fetches[g].key
          /\ fetches[f].pc = "processed" /\ fetches[g].pc = "processed"
          /\ fetches[f].stored # fetches[g].stored
          /\ store[fetches[g].key] = fetches[g].stored
          /\ \E h \in DOMAIN fetches :
                /\ fetches[h].key # fetches[g].key
                /\ fetches[h].pc = "processed"
                /\ fetches[h].finish < fetches[g].finish
                /\ store[fetches[h].key] = fetches[h].stored
    /\ \E r \in DOMAIN reqs :
          reqs[r].pc = "done" /\ reqs[r].call_type = "hit_correct"

\* C35: the thinning loop never accepts a candidate at a time where the
\* instantaneous rate lambda(t) is 0, whatever the uniform draw was.
C35_ZeroRateNeverAccepted ==
    thin.n > 0 =>
       \A i \in DOMAIN thin.cands :
          thin.cands[i].accepted =>
             InstantRate(CyclicPar, thin.cands[i].t) > 0

\* C36: for every key the version held in the cache entry is at most the
\* resource's current version, and the version of a key's entry never
\* decreases: a later fetch of a key stores a version at least as high as an
\* earlier one.
C36_EntryVersionBehindSource ==
    /\ [](\A k \in Keys : store[k].version <= version[k])
    /\ [][\A k \in Keys : store'[k].version >= store[k].version]_vars
    /\ [](\A f, g \in DOMAIN fetches :
            /\ f < g
            /\ fetches[f].key = fetches[g].key
            /\ fetches[f].stored # NoEntry
            /\ fetches[g].stored # NoEntry
            => fetches[f].stored.version <= fetches[g].stored.version)

\* C36 witness: a key's first fetch stored version 0, the resource was
\* updated, and a later fetch of the key stored version 1; the other key's
\* entry lags behind its resource
C36_Witness ==
    /\ \E f, g \in DOMAIN fetches :
          /\ f < g
          /\ fetches[f].key = fetches[g].key
          /\ fetches[f].stored # NoEntry
          /\ fetches[f].stored.version = 0
          /\ fetches[g].stored # NoEntry
          /\ fetches[g].stored.version = 1
          /\ store[fetches[g].key].version = version[fetches[g].key]
    /\ \E k \in Keys : store[k] # NoEntry /\ store[k].version < version[k]

\* C37: a request served as a hit keeps the entry that was in the store when
\* it was classified: its classification compares that entry's version with
\* the resource's version of that instant, and after the read delay it
\* returns that entry's value and version and records that classification,
\* also when a fetch of the key has replaced the stored entry in between.
C37_HitReturnsClassifiedEntry ==
    /\ [][\A r \in DOMAIN reqs :
            reqs[r].pc = "init" /\ reqs'[r].pc = "hit_wait" =>
               /\ reqs'[r].entry = store[reqs[r].key]
               /\ reqs'[r].call_type =
                     (IF store[reqs[r].key].version = version[reqs[r].key]
                      THEN "hit_correct" ELSE "hit_incorrect")
               /\ reqs'[r].events = <<reqs'[r].call_type>>]_vars
    /\ [][\A r \in DOMAIN reqs :
            reqs[r].pc = "hit_wait" =>
               /\ reqs'[r].entry = reqs[r].entry
               /\ reqs'[r].call_type = reqs[r].call_type
               /\ reqs'[r].events = reqs[r].events
               /\ reqs'[r].pc = "done" =>
                     /\ reqs'[r].result =
                           <<reqs[r].entry.value, reqs[r].entry.version>>
                     /\ reqs'[r].call = reqs[r].call_type
                     /\ reqs'[r].call_version = reqs[r].entry.version]_vars

\* C37 witness: a hit was classified on an entry of version 0 when the
\* resource was at version 1 (an incorrect hit), a fetch of the same key
\* stored version 1 during the read delay, and the hit returned version 0 and
\* was recorded as an incorrect hit
C37_Witness ==
    \E r \in DOMAIN reqs : \E f \in DOMAIN fetches :
       /\ reqs[r].pc = "done"
       /\ reqs[r].call = "hit_incorrect"
       /\ fetches[f].key = reqs[r].key
       /\ fetches[f].pc \in {"done", "processed"}
       /\ reqs[r].start <= fetches[f].finish
       /\ fetches[f].finish <= reqs[r].finish
       /\ reqs[r].entry.timestamp < reqs[r].start
       /\ store[reqs[r].key] = fetches[f].stored
       /\ fetches[f].stored.version = 1
       /\ reqs[r].result = <<ValueOf(reqs[r].key), 0>>

\* the requests that joined fetch f and were classified with event e
ClassifiedOn(f, e) ==
    {r \in DOMAIN reqs :
        reqs[r].fetch = f /\ reqs[r].events # <<>> /\ reqs[r].events[1] = e}

UpdatesCounted == metrics.cache_updates + metrics.redundant_misses
FetchesCompleted ==
    Cardinality({f \in DOMAIN fetches : fetches[f].pc \in {"done", "processed"}})
StoreWrites ==
    Cardinality({f \in DOMAIN fetches : fetches[f].stored # NoEntry})
RECURSIVE SourceCallsReturned(_)
SourceCallsReturned(n) ==
    IF n = 0 THEN 0
    ELSE SourceCallsReturned(n - 1)
            + (IF fetches[n].pc \in {"done", "processed"}
               THEN fetches[n].source_calls ELSE 0)
SourceServedCount ==
    Cardinality({f \in DOMAIN fetches : fetches[f].served_at >= 0})
\* the source's process event of a served request waits to be processed
SourceResultPending ==
    \E e \in DOMAIN queue : queue[e].kind = "src_end" /\ queue[e].t = now

\* C39: in every state the genuine-update counter plus the redundant-miss
\* counter equals the number of completed fetches, the number of store writes
\* and the number of source calls that have returned to the Cache, and every
\* step raises that sum by the number of on_update calls it makes.  (The
\* requests the source has finished serving are as many, or one more while a
\* served request's result waits at the same virtual instant for _do_fetch
\* to resume.)
C39_CountersEqualFetches ==
    /\ [](/\ UpdatesCounted = FetchesCompleted
          /\ UpdatesCounted = StoreWrites
          /\ UpdatesCounted = SourceCallsReturned(Len(fetches))
          /\ IF SourceResultPending
             THEN SourceServedCount = UpdatesCounted + 1
             ELSE SourceServedCount = UpdatesCounted)
    /\ [][/\ UpdatesCounted' - UpdatesCounted = NewFetchesDone
          /\ ~RecalcStep =>
                strat'.n_misses - strat.n_misses = NewFetchesDone]_vars

\* C39 witness: three fetches have completed, one counted as redundant, and
\* a fourth has been served by the source but not yet stored
C39_Witness ==
    /\ UpdatesCounted = 3
    /\ metrics.redundant_misses >= 1
    /\ SourceServedCount = 4
    /\ SourceResultPending

\* C40: in every state the TTL of the AdaptiveTTLStrategy, the one is_valid
\* compares an entry's age with, lies in [min_ttl, max_ttl], before the first
\* recalculation too; so no request is served as a hit on an entry older than
\* max_ttl.
C40_AppliedTtlWithinBounds ==
    /\ NumGeInt(strat.ttl, a_par.min_ttl)
    /\ NumLeInt(strat.ttl, a_par.max_ttl)
    /\ \A r \in DOMAIN reqs :
          reqs[r].call_type \in {"hit_correct", "hit_incorrect"} =>
             reqs[r].start - reqs[r].entry.timestamp <= a_par.max_ttl

====
